---------------------------- MODULE Spec2Model ----------------------------
(***************************************************************************)
(* NYT-to-Library CatKey Generator (nyt_catkey_enhanced.py).               *)
(*                                                                         *)
(* The run of main(): validate the configuration, launch one WebDriver,    *)
(* for each configured list fetch the books from the NYT API (retry and    *)
(* backoff), search the catalog for each ISBN (ISBN mode, then title       *)
(* mode), record the CatKey or the not-found row, write the reports, mail  *)
(* them and quit the WebDriver.                                            *)
(*                                                                         *)
(* Strings whose content the program inspects (locations, hrefs, ISBNs,    *)
(* CatKeys) are sequences of one-character strings.  None is Python's      *)
(* None.                                                                   *)
(***************************************************************************)
EXTENDS Integers, Sequences, FiniteSets, TLC

VARIABLES
    pc,               \* position of the single thread of control
    MAX_RETRIES,      \* configuration, read once at start-up
    NYT_LIST_NAMES,
    NYT_NO_EMAIL,
    environ,          \* os.environ on the required variables: "unset", "empty" or "set"
    RECEIVER_EMAILS,
    browser,          \* the Chrome process: "none", "running", "quit"
    driver,           \* main's local `driver`: None or the session handle
    sessionsCreated,  \* webdriver.Chrome(...) calls that started a browser
    quitCalls,        \* driver.quit() calls
    cleanup,          \* the log of the finally clause: "none", "ok" (line 491), "failed" (line 493)
    location,         \* session state: driver.current_url
    anchors,          \* session state: href of each rendered <a>, in document order
    listIdx,          \* main: index in NYT_LIST_NAMES of the list being processed
    books,            \* main: the candidates fetch_nyt_list returned
    bookIdx,          \* main: index in books of the candidate being processed
    perlist_found,
    all_found,        \* dict list name -> keys, as a sequence of <<name, keys>> in insertion order
    not_found_rows,
    total_processed,
    total_found,
    sleeps,           \* milliseconds slept by the time.sleep(0.5) of the per-book loop
    fetchedTotal,     \* candidates the fetch_nyt_list calls of the run have returned
    outcomes,         \* what became of each candidate, in the order the loop took them:
                      \* the index of its list and the key found, or the candidate itself
    attempt,          \* fetch_nyt_list: loop variable
    waits,            \* fetch_nyt_list: the time.sleep durations of this call, in order
    respBody,         \* fetch_nyt_list: the body of the response it parsed
    failed,           \* fetch_nyt_list: the last attempt that failed, if any: the exception,
                      \* the status of the response and the number of the attempt
    catkey,           \* search_library_catalog: local `catkey`, then its return value
    navs,             \* search_library_catalog: modes of the driver.get calls of this call
    steps,            \* search_library_catalog: the session operations that completed in this call
    reason,           \* the log: which except clause of search_library_catalog logged in
                      \* the call that ended last ("none": none did)
    usedSessions,     \* the session handle each search_library_catalog call was given
    exc,              \* exception propagating out of main's try block, or "none"
    excSite,          \* where that exception was raised
    attachments,      \* generate_reports: names of the artifacts written
    emailCalls,       \* send_email_with_attachments calls
    emailOk,
    exitStatus,       \* "running", "ok", "config" (sys.exit(1)), "traceback"
    foundReport,      \* the lines of the found report, None when it is not among the attachments
    notFoundReport,   \* the lines of the not-found report, None likewise
    writeLog,         \* generate_reports: the reports it began to write, and whether each write completed
    summary,          \* the counts of the body generate_email_summary built, in a
                      \* sequence that is empty before
    mailTodo,         \* send_email_with_attachments: the attachments not yet looked at
    mailLog,          \* send_email_with_attachments: its operations, and whether each completed
    mailResult,       \* send_email_with_attachments: "none", then what it returned
    url,              \* extraction harness: the argument
    res,              \* extraction harness: the result
    resLegacy,        \* extraction harness: the result of the legacy scraper's pattern
    resGenerator,     \* extraction harness: the result of the generator script's pattern
    catalog,          \* two calls for one identifier: what the catalog answers to the
                      \* request of each mode; <<>> elsewhere
    firstCall         \* two calls for one identifier: what the first call did and returned

vars == <<pc, MAX_RETRIES, NYT_LIST_NAMES, NYT_NO_EMAIL, environ, RECEIVER_EMAILS, browser, driver,
          sessionsCreated, quitCalls, cleanup, location, anchors, listIdx, books, bookIdx,
          perlist_found, all_found, not_found_rows, total_processed, total_found,
          sleeps, fetchedTotal, outcomes, attempt, waits, respBody, failed, catkey, navs, steps, reason,
          usedSessions, exc, excSite, attachments, emailCalls, emailOk,
          exitStatus, foundReport, notFoundReport, writeLog, summary, mailTodo, mailLog, mailResult, url, res,
          resLegacy, resGenerator, catalog, firstCall>>

\* Python's None, where a string (a sequence of characters) may stand instead
None == <<"None">>

(***************************************************************************)
(* Characters and strings                                                  *)
(***************************************************************************)
Digits == {"0", "1", "2", "3", "4", "5", "6", "7", "8", "9"}

\* the literal part of the pattern r'SD_ILS:(\d+)'
Marker == <<"S", "D", "_", "I", "L", "S", ":">>

\* `needle in hay` at position i (1-based)
OccursAt(hay, needle, i) ==
    /\ i >= 1
    /\ i + Len(needle) - 1 <= Len(hay)
    /\ \A k \in 1..Len(needle) : hay[i + k - 1] = needle[k]

\* Python's `needle in hay`
Contains(hay, needle) == \E i \in 1..(Len(hay) + 1) : OccursAt(hay, needle, i)

\* \d+ is greedy: the last position of the run of digits that starts at
\* position j, or j - 1 when no digit stands at j
DigitRunEndMutToEnd(s, j) == Len(s)

RECURSIVE DigitRunEnd(_, _)
DigitRunEnd(s, j) ==
    IF j <= Len(s) /\ s[j] \in Digits THEN DigitRunEnd(s, j + 1) ELSE j - 1

\* the pattern matches at i: the literal, then at least one digit
MatchAtMutNoDigit(s, i) == OccursAt(s, Marker, i)

MatchAt(s, i) ==
    /\ OccursAt(s, Marker, i)
    /\ DigitRunEnd(s, i + Len(Marker)) >= i + Len(Marker)

\* re.search scans the start positions from the left and takes the first match
RECURSIVE SearchFrom(_, _)
SearchFrom(s, i) ==
    IF i > Len(s) THEN None
    ELSE IF MatchAt(s, i)
         THEN SubSeq(s, i + Len(Marker), DigitRunEnd(s, i + Len(Marker)))
         ELSE SearchFrom(s, i + 1)

_extract_catkey_from_url(u) == SearchFrom(u, 1)


\* nyt_bestsellers_scraper.py, line 198: the literal that ends the pattern
\* r'SD_ILS:(\d+)/one'
TailOne == <<"/", "o", "n", "e">>

\* the legacy pattern matches at i: the literal, at least one digit, then
\* '/one' right after the run of digits (a shorter run is followed by a digit,
\* so backtracking finds no other match)
LegacyMatchAt(s, i) ==
    /\ MatchAt(s, i)
    /\ OccursAt(s, TailOne, DigitRunEnd(s, i + Len(Marker)) + 1)

RECURSIVE LegacySearchFrom(_, _)
LegacySearchFrom(s, i) ==
    IF i > Len(s) THEN None
    ELSE IF LegacyMatchAt(s, i)
         THEN SubSeq(s, i + Len(Marker), DigitRunEnd(s, i + Len(Marker)))
         ELSE LegacySearchFrom(s, i + 1)

\* nyt_bestsellers_scraper.py, lines 198-201: match.group(1), or None
LegacyExtract(u) == LegacySearchFrom(u, 1)

\* NYT-to-Library-CatKey-Generator.py, lines 149-153: re.search(r'SD_ILS:(\d+)',
\* final_url), match.group(1) or None
GeneratorExtract(u) == SearchFrom(u, 1)

\* Python truthiness of an Optional[str]
Truthy(v) == v # None /\ v # <<>>

(***************************************************************************)
(* Bounds of the model                                                     *)
(***************************************************************************)
MaxLists == 2        \* configured list names
MaxListsLive == 1    \* configured list names, in the runs checked for termination
MaxBooks == 2        \* items of one NYT response
MaxRetriesCfg == 3   \* largest NYT_MAX_RETRIES
MaxChunks == 4       \* pieces of a location string given to the extraction

RECURSIVE SeqsOfLen(_, _)
SeqsOfLen(S, n) ==
    IF n = 0 THEN {<<>>}
    ELSE {Append(q, x) : q \in SeqsOfLen(S, n - 1), x \in S}

SeqsUpTo(S, n) == UNION {SeqsOfLen(S, k) : k \in 0..n}

(***************************************************************************)
(* The NYT API: what one requests.get can bring                            *)
(***************************************************************************)
\* a JSON value where the program expects a string: t is "str", "null" or "int"
JStr(v) == [t |-> "str", v |-> v]
JNull == [t |-> "null", v |-> <<>>]
JInt(v) == [t |-> "int", v |-> v]

\* `not value` for such a JSON value (an int is written by its digits)
JTruthy(j) ==
    CASE j.t = "null" -> FALSE
      [] j.t = "str" -> j.v # <<>>
      [] OTHER -> j.v # <<"0">>

ISBN_LEN == 13

IsbnA == <<"9", "7", "8", "0", "3", "8", "5", "5", "4", "5", "9", "6", "9">>
IsbnAHyphen == <<"9", "7", "8", "-">> \o SubSeq(IsbnA, 4, 13)
IsbnB == <<"9", "7", "8", "1", "2", "5", "0", "1", "7", "8", "6", "3", "2">>
IsbnShort == <<"1", "2", "3", "4", "5">>

Items ==
    { [primary_isbn13 |-> JStr(IsbnAHyphen), isbns |-> <<>>, title |-> <<"X">>, author |-> <<"Y">>],
      [primary_isbn13 |-> JNull, isbns |-> <<JNull, JStr(IsbnB)>>, title |-> <<"T", ",", " ", "2">>,
        author |-> <<"A", " ", "\"", "2", "\"">>],
      [primary_isbn13 |-> JStr(IsbnShort), isbns |-> <<JStr(IsbnB)>>, title |-> <<"T", "3">>,
        author |-> <<"A", "3">>],
      [primary_isbn13 |-> JInt(IsbnA), isbns |-> <<>>, title |-> <<"T", "4">>, author |-> <<"A", "4">>] }

\* the body of a 200 response: not JSON at all, JSON whose 'results' is a list,
\* or JSON with results.books
Bodies ==
    { [kind |-> "not_json", books |-> <<>>], [kind |-> "results_not_mapping", books |-> <<>>] }
    \cup { [kind |-> "ok", books |-> bs] : bs \in SeqsUpTo(Items, MaxBooks) }

NoBody == [kind |-> "none", books |-> <<>>]

\* requests.get / raise_for_status failing: all are requests.exceptions.RequestException
RequestFailures == {"Timeout", "ConnectionError", "HTTPError"}

\* no attempt has failed
NoFailure == [cls |-> "none", status |-> 0, at |-> 0]

\* the status codes of the error responses: a client error and a server error
ErrorStatuses == {404, 503}

\* line 216: resp.raise_for_status() raises HTTPError for a 4xx or 5xx status
RaiseForStatus(status) == IF 400 <= status /\ status < 600 THEN "HTTPError" ELSE "none"

\* lines 215-216: the ways the request of an attempt fails: no response (status
\* 0 here), or a response with an error status
RequestOutcomes ==
    {[cls |-> c, status |-> 0] : c \in {"Timeout", "ConnectionError"}}
    \cup {[cls |-> RaiseForStatus(st), status |-> st] : st \in ErrorStatuses}

\* re.sub(r'[^\d]', '', s)
RECURSIVE StripNonDigits(_)
StripNonDigits(s) ==
    IF s = <<>> THEN <<>>
    ELSE (IF Head(s) \in Digits THEN <<Head(s)>> ELSE <<>>) \o StripNonDigits(Tail(s))

\* lines 223-226: the first entry of b['isbns'] with a truthy isbn13, else the primary
RECURSIVE FirstIsbnsEntry(_, _)
FirstIsbnsEntry(ents, dflt) ==
    IF ents = <<>> THEN dflt
    ELSE IF JTruthy(Head(ents)) THEN Head(ents)
         ELSE FirstIsbnsEntry(Tail(ents), dflt)

\* lines 221-226: the identifier chosen for one item
ChosenIsbn(b) ==
    IF JTruthy(b.primary_isbn13) THEN b.primary_isbn13
    ELSE FirstIsbnsEntry(b.isbns, b.primary_isbn13)

\* line 229: the test on the cleaned identifier
IsIsbn13MutNotEmpty(clean) == clean # <<>>

IsIsbn13(clean) == Len(clean) = ISBN_LEN

\* lines 220-236 over the items: the candidates kept, or raised when re.sub
\* is given something that is not a string (TypeError)
RECURSIVE ParseBooks(_, _)
ParseBooks(items, out) ==
    IF items = <<>> THEN [raised |-> FALSE, out |-> out]
    ELSE LET b == Head(items)
             isbn13 == ChosenIsbn(b)
         IN IF ~JTruthy(isbn13) THEN ParseBooks(Tail(items), out)
            ELSE IF isbn13.t # "str" THEN [raised |-> TRUE, out |-> <<>>]
            ELSE LET clean == StripNonDigits(isbn13.v)
                 IN IF IsIsbn13(clean)
                    THEN ParseBooks(Tail(items),
                                    Append(out, [isbn13 |-> clean, title |-> b.title,
                                                 author |-> b.author]))
                    ELSE ParseBooks(Tail(items), out)


(***************************************************************************)
(* The catalog: what one driver.get can land on                            *)
(***************************************************************************)
SegDetail == <<"d", "e", "t", "a", "i", "l", "n", "o", "n", "m", "o", "d", "a", "l">>
SegResults == <<"s", "e", "a", "r", "c", "h", "/", "r", "e", "s", "u", "l", "t", "s">>
SegTitle == <<"s", "e", "a", "r", "c", "h", "/", "t", "i", "t", "l", "e">>

Key1 == <<"4", "8", "2", "9", "1", "0">>
Key2 == <<"1", "5">>

UrlDetailKey == SegDetail \o <<"/">> \o Marker \o Key1 \o <<"/", "o", "n", "e">>
UrlResults == SegResults \o <<"?", "q", "u", "=">>
UrlTitle == SegTitle \o <<"?", "q", "u", "=">>
UrlBlank == <<"d", "a", "t", "a", ":", ",">>

HrefKey2 == <<"d", "/">> \o Marker \o Key2
HrefKey1 == <<"d", "/">> \o Marker \o Key1
HrefNoDigits == <<"d", "/">> \o Marker \o <<"x">>
HrefPlain == <<"a", "b", "o", "u", "t">>

\* a single match redirected to its detail page, which links to another record;
\* a results page whose anchors hold keys, the first of them after anchors
\* without one; a results page with no match; a page that is neither
Pages ==
    { [url |-> UrlDetailKey, links |-> <<HrefKey2>>],
      [url |-> UrlResults, links |-> <<HrefPlain, HrefNoDigits, HrefKey2, HrefKey1>>],
      [url |-> UrlResults, links |-> <<HrefPlain, HrefNoDigits>>],
      [url |-> UrlTitle, links |-> <<>>] }

\* the predicate given to WebDriverWait.until (lines 285 and 299)
UrlReady(u) == Contains(u, SegDetail) \/ Contains(u, SegResults)

\* find_elements("css selector", "a[href*='SD_ILS:']"): the anchors whose href has the substring
SelectLinks(hrefs) == SelectSeq(hrefs, LAMBDA h : h # None /\ Contains(h, Marker))

\* lines 290-294: the key of the first link that has one; else what the last
\* extraction left in catkey
FirstLinkKeyMutLast(links, last) ==
    LET keyed == {i \in 1..Len(links) :
                     Truthy(links[i]) /\ Truthy(_extract_catkey_from_url(links[i]))}
    IN IF links = <<>> THEN last
       ELSE IF keyed = {} THEN None
       ELSE _extract_catkey_from_url(links[CHOOSE i \in keyed : \A j \in keyed : j <= i])

RECURSIVE FirstLinkKey(_, _)
FirstLinkKey(links, last) ==
    IF links = <<>> THEN last
    ELSE LET href == IF Truthy(Head(links)) THEN Head(links) ELSE <<>>
             k == _extract_catkey_from_url(href)
         IN IF Truthy(k) THEN k ELSE FirstLinkKey(Tail(links), k)

(***************************************************************************)
(* Exceptions                                                              *)
(***************************************************************************)
\* the base class of each exception class the program can meet
Parent(c) ==
    CASE c \in {"Timeout", "ConnectionError", "HTTPError", "JSONDecodeError"} -> "RequestException"
      [] c = "SMTPAuthenticationError" -> "SMTPResponseException"
      [] c \in {"SMTPResponseException", "SMTPServerDisconnected", "SMTPRecipientsRefused",
                "SMTPNotSupportedError", "SMTPConnectError"} -> "SMTPException"
      [] c \in {"SMTPException", "ConnectionRefusedError", "SSLError", "PermissionError"} -> "OSError"
      [] c \in {"TimeoutException", "StaleElementReferenceException"} -> "WebDriverException"
      [] c = "Exception" -> "BaseException"
      [] OTHER -> "Exception"

RECURSIVE IsSubclass(_, _)
IsSubclass(c, d) ==
    IF c = d THEN TRUE
    ELSE IF c = "BaseException" THEN FALSE
    ELSE IsSubclass(Parent(c), d)

\* the except clauses of a try statement, in order: the index of the first
\* clause that catches c, or 0
RECURSIVE FirstClause(_, _, _)
FirstClause(clauses, c, i) ==
    IF i > Len(clauses) THEN 0
    ELSE IF IsSubclass(c, clauses[i]) THEN i
    ELSE FirstClause(clauses, c, i + 1)

\* fetch_nyt_list, lines 239-242
FetchClausesMutTimeoutOnly == <<"Timeout">>

FetchClauses == <<"Timeout", "RequestException">>

\* search_library_catalog, lines 312-317
ResolveClausesMutNoCatchAll == <<"TimeoutException", "WebDriverException">>

ResolveClauses == <<"TimeoutException", "WebDriverException", "Exception">>

\* what a session operation can raise: a page-load or wait timeout, a WebDriver
\* error, and (the chromedriver process gone) urllib3's MaxRetryError
SessionFaults == {"TimeoutException", "WebDriverException", "MaxRetryError"}


(***************************************************************************)
(* State                                                                   *)
(***************************************************************************)
cfgVars == <<MAX_RETRIES, NYT_LIST_NAMES, NYT_NO_EMAIL, environ, RECEIVER_EMAILS>>
sessVars == <<browser, driver, sessionsCreated, quitCalls, cleanup>>
pageVars == <<location, anchors>>
loopVars == <<listIdx, books, bookIdx>>
accVars == <<perlist_found, all_found, not_found_rows, total_processed, total_found, sleeps,
            fetchedTotal, outcomes>>
fetchVars == <<attempt, waits, respBody, failed>>
resVars == <<catkey, navs, steps, reason>>
excVars == <<exc, excSite>>
endVars == <<attachments, emailCalls, emailOk, exitStatus>>
reportVars == <<foundReport, notFoundReport, writeLog, summary>>
mailVars == <<mailTodo, mailLog, mailResult>>
harnessVars == <<url, res, resLegacy, resGenerator, catalog, firstCall>>

HardcoverFiction == <<"h", "a", "r", "d", "c", "o", "v", "e", "r", "-", "f", "i", "c", "t", "i", "o", "n">>
PictureBooks == <<"p", "i", "c", "t", "u", "r", "e", "-", "b", "o", "o", "k", "s">>

ListNames == {HardcoverFiction, PictureBooks}

\* NYT_LIST_NAMES: up to MaxLists names, a name may come twice; the two names
\* are interchangeable, so the first is fixed
ConfiguredLists ==
    {ns \in SeqsUpTo(ListNames, MaxLists) : ns = <<>> \/ ns[1] = HardcoverFiction}

\* validate_config, lines 145-148
Required ==
    {"SENDER_EMAIL", "SENDER_PASSWORD", "RECEIVER_EMAILS", "NYT_API_KEY", "NYT_LIST_NAMES",
     "CATALOG_BASE_URL"}

EnvStates == {"unset", "empty", "set"}

AllSet == [v \in Required |-> "set"]

\* line 149: `os.environ.get(var)` is truthy
EnvTruthyMutPresent(v) == v # "unset"

EnvTruthy(v) == v = "set"

\* line 149: the required variables that are missing
Missing(env) == {v \in Required : ~EnvTruthy(env[v])}

\* line 150: validation passes
configOk == Missing(environ) = {}

\* the state of the run as the interpreter starts, whatever the configuration
InitRun ==
    /\ browser = "none"
    /\ driver = None
    /\ sessionsCreated = 0
    /\ quitCalls = 0
    /\ cleanup = "none"
    /\ location = UrlBlank
    /\ anchors = <<>>
    /\ listIdx = 0
    /\ books = <<>>
    /\ bookIdx = 0
    /\ perlist_found = <<>>
    /\ all_found = <<>>
    /\ not_found_rows = <<>>
    /\ total_processed = 0
    /\ total_found = 0
    /\ sleeps = 0
    /\ fetchedTotal = 0
    /\ outcomes = <<>>
    /\ attempt = 0
    /\ waits = <<>>
    /\ respBody = NoBody
    /\ failed = NoFailure
    /\ catkey = None
    /\ navs = <<>>
    /\ steps = <<>>
    /\ reason = "none"
    /\ usedSessions = <<>>
    /\ exc = "none"
    /\ excSite = "none"
    /\ attachments = {}
    /\ emailCalls = 0
    /\ emailOk = FALSE
    /\ exitStatus = "running"
    /\ foundReport = None
    /\ notFoundReport = None
    /\ writeLog = <<>>
    /\ summary = <<>>
    /\ mailTodo = <<>>
    /\ mailLog = <<>>
    /\ mailResult = "none"

\* line 183: NYT_MAX_RETRIES when the environment does not set it
DEFAULT_MAX_RETRIES == 3

\* a run of the program, NYT_MAX_RETRIES left at its default
Init ==
    /\ pc = "validate"
    /\ MAX_RETRIES = DEFAULT_MAX_RETRIES
    /\ environ \in [Required -> EnvStates]
    /\ NYT_LIST_NAMES \in ConfiguredLists
    /\ environ["NYT_LIST_NAMES"] # "set" => NYT_LIST_NAMES = <<>>
    /\ RECEIVER_EMAILS = IF environ["RECEIVER_EMAILS"] = "set" THEN <<"r1">> ELSE <<>>
    /\ NYT_NO_EMAIL \in BOOLEAN
    /\ InitRun
    /\ url = <<>>
    /\ res = None
    /\ resLegacy = None
    /\ resGenerator = None
    /\ catalog = <<>>
    /\ firstCall = <<>>

\* an exception leaves main's try block: the finally clause runs next
Raise(cls, site) ==
    /\ exc' = cls
    /\ excSite' = site
    /\ pc' = "finally"

(***************************************************************************)
(* validate_config, lines 144-157                                          *)
(***************************************************************************)
ValidateConfig ==
    /\ pc = "validate"
    /\ IF configOk
       THEN /\ pc' = "create"
            /\ UNCHANGED endVars
       ELSE /\ pc' = "done"
            /\ exitStatus' = "config"
            /\ UNCHANGED <<attachments, emailCalls, emailOk>>
    /\ UNCHANGED <<cfgVars, sessVars, pageVars, loopVars, accVars, fetchVars, resVars,
                   usedSessions, excVars, reportVars, mailVars, harnessVars>>

(***************************************************************************)
(* create_webdriver, lines 254-270, called at line 436                     *)
(***************************************************************************)
CreateWebdriver ==
    /\ pc = "create"
    /\ \/ \* webdriver.Chrome(...) raises: no browser
          /\ Raise("WebDriverException", "create")
          /\ UNCHANGED sessVars
       \/ \* the browser starts, set_page_load_timeout or implicitly_wait raises:
          \* main's driver stays None
          /\ Raise("WebDriverException", "create")
          /\ browser' = "running"
          /\ sessionsCreated' = sessionsCreated + 1
          /\ UNCHANGED <<driver, quitCalls, cleanup>>
       \/ /\ browser' = "running"
          /\ sessionsCreated' = sessionsCreated + 1
          /\ driver' = <<"session", sessionsCreated + 1>>
          /\ pc' = "next_list"
          /\ UNCHANGED <<quitCalls, cleanup, excVars>>
    /\ UNCHANGED <<cfgVars, pageVars, loopVars, accVars, fetchVars, resVars, usedSessions,
                   endVars, reportVars, mailVars, harnessVars>>

(***************************************************************************)
(* main, lines 442-444: the next list name, and the call of fetch_nyt_list *)
(***************************************************************************)
MainNextList ==
    /\ pc = "next_list"
    /\ IF listIdx < Len(NYT_LIST_NAMES)
       THEN /\ listIdx' = listIdx + 1
            /\ pc' = "fetch"
       ELSE /\ pc' = "report"
            /\ UNCHANGED listIdx
    /\ attempt' = 0
    /\ waits' = <<>>
    /\ respBody' = NoBody
    /\ failed' = NoFailure
    /\ UNCHANGED <<cfgVars, sessVars, pageVars, books, bookIdx, accVars, resVars,
                   usedSessions, excVars, endVars, reportVars, mailVars, harnessVars>>

(***************************************************************************)
(* fetch_nyt_list, lines 208-249                                           *)
(***************************************************************************)
\* line 243: is the failed attempt followed by a backoff sleep
ShouldBackoffMutOffByOne(a, maxRetries) == a < maxRetries - 2

ShouldBackoff(a, maxRetries) == a < maxRetries - 1

\* line 244: wait = 2 ** attempt, the seconds slept after failed attempt a
BackoffWaitMutDouble(a) == 2 * a

BackoffWait(a) == 2 ^ a

\* lines 239-243: after either except clause control goes on to the backoff and
\* the next iteration, whatever the class caught
CaughtContinuesMutHttpFinal(cls) == cls # "HTTPError"

CaughtContinues(cls) == TRUE

\* lines 239-246: a caught failure of the attempt, the backoff, the next attempt
FetchCaught(cls) ==
    IF CaughtContinues(cls)
    THEN /\ waits' = IF ShouldBackoff(attempt, MAX_RETRIES)
                     THEN Append(waits, BackoffWait(attempt))
                     ELSE waits
         /\ attempt' = attempt + 1
         /\ UNCHANGED <<pc, books, respBody, excVars>>
    ELSE /\ books' = <<>>
         /\ pc' = "fetched"
         /\ UNCHANGED <<attempt, waits, respBody, excVars>>

\* an exception of class cls raised inside the try block of the attempt
FetchRaised(cls) ==
    IF FirstClause(FetchClauses, cls, 1) # 0
    THEN FetchCaught(cls)
    ELSE /\ Raise(cls, "fetch")
         /\ UNCHANGED <<attempt, waits, books, respBody>>

\* lines 215-216: requests.get or raise_for_status raises
FetchRequestFails ==
    /\ pc = "fetch"
    /\ attempt < MAX_RETRIES
    /\ \E f \in RequestOutcomes :
          /\ FetchRaised(f.cls)
          /\ failed' = [cls |-> f.cls, status |-> f.status, at |-> attempt]
    /\ UNCHANGED <<cfgVars, sessVars, pageVars, listIdx, bookIdx, accVars, resVars,
                   usedSessions, endVars, reportVars, mailVars, harnessVars>>

\* lines 215-238: a 200 response, and what becomes of its body
FetchResponse ==
    /\ pc = "fetch"
    /\ attempt < MAX_RETRIES
    /\ \E body \in Bodies :
          CASE body.kind = "not_json" ->
                  \* resp.json() raises requests' JSONDecodeError (a RequestException)
                  \* or, with requests before 2.27, a plain ValueError
                  \E cls \in {"JSONDecodeError", "ValueError"} :
                     /\ FetchRaised(cls)
                     /\ failed' = [cls |-> cls, status |-> 200, at |-> attempt]
            [] body.kind = "results_not_mapping" ->
                  \* line 218: data.get('results', {}) is a list, it has no .get
                  /\ FetchRaised("AttributeError")
                  /\ failed' = [cls |-> "AttributeError", status |-> 200, at |-> attempt]
            [] OTHER ->
                  LET r == ParseBooks(body.books, <<>>)
                  IN IF r.raised
                     THEN /\ FetchRaised("TypeError")
                          /\ failed' = [cls |-> "TypeError", status |-> 200, at |-> attempt]
                     ELSE /\ books' = r.out
                          /\ respBody' = body
                          /\ pc' = "fetched"
                          /\ UNCHANGED <<attempt, waits, failed, excVars>>
    /\ UNCHANGED <<cfgVars, sessVars, pageVars, listIdx, bookIdx, accVars, resVars,
                   usedSessions, endVars, reportVars, mailVars, harnessVars>>

\* lines 248-249: the attempts are used up
FetchExhausted ==
    /\ pc = "fetch"
    /\ attempt >= MAX_RETRIES
    /\ books' = <<>>
    /\ pc' = "fetched"
    /\ UNCHANGED <<cfgVars, sessVars, pageVars, listIdx, bookIdx, accVars, fetchVars,
                   resVars, usedSessions, excVars, endVars, reportVars, mailVars, harnessVars>>


(***************************************************************************)
(* main, lines 445-461 and 473-474                                         *)
(***************************************************************************)
\* all_found[name] = keys on a dict that keeps insertion order
DictSet(d, name, keys) ==
    IF \E i \in 1..Len(d) : d[i][1] = name
    THEN [i \in 1..Len(d) |-> IF d[i][1] = name THEN <<name, keys>> ELSE d[i]]
    ELSE Append(d, <<name, keys>>)

list_name == NYT_LIST_NAMES[listIdx]

\* lines 463-469: the two ways a candidate of list number i ends
Resolved(i, key) == [kind |-> "resolved", list |-> i, key |-> key]
Unresolved(i, book) == [kind |-> "unresolved", list |-> i, book |-> book]

\* lines 445-447: `if not books: continue`, where main goes on after the fetch
AfterFetchMutStop(bs) == IF bs = <<>> THEN "report" ELSE "next_book"

AfterFetchMutRefetch(bs) == IF bs = <<>> THEN "fetch" ELSE "next_book"

AfterFetch(bs) == IF bs = <<>> THEN "next_list" ELSE "next_book"

\* lines 445-448: fetch_nyt_list has returned
MainAfterFetch ==
    /\ pc = "fetched"
    /\ pc' = AfterFetch(books)
    /\ IF books = <<>>
       THEN UNCHANGED perlist_found
       ELSE perlist_found' = <<>>
    /\ bookIdx' = 0
    /\ fetchedTotal' = fetchedTotal + Len(books)
    /\ attempt' = 0
    /\ waits' = <<>>
    /\ respBody' = NoBody
    /\ failed' = NoFailure
    /\ UNCHANGED <<cfgVars, sessVars, pageVars, listIdx, books, all_found, not_found_rows,
                   total_processed, total_found, sleeps, outcomes, resVars, usedSessions,
                   excVars, endVars, reportVars, mailVars, harnessVars>>

\* line 462: the session passed to search_library_catalog for candidate
\* number idx of the list is main's driver
SessionArgMutPerBook(d, idx) == <<"session", idx + 1>>

SessionArg(d, idx) == d

\* line 473: `if perlist_found:`, is the list entered in all_found
StoresListMutAlways(keys) == TRUE

StoresList(keys) == keys # <<>>

\* lines 452-462: the next book of the list and the call of
\* search_library_catalog; lines 473-474 when the list is done
\* line 283: the first statement of search_library_catalog that touches the
\* session is driver.get; current_url and the links are read only after it
FirstStepMutReadsFirst == "r_url_isbn"

FirstStep == "r_get_isbn"

MainNextBook ==
    /\ pc = "next_book"
    /\ IF bookIdx < Len(books)
       THEN LET book == books[bookIdx + 1]
            IN /\ bookIdx' = bookIdx + 1
               /\ total_processed' = total_processed + 1
               /\ IF ~Truthy(book.isbn13)
                  THEN /\ not_found_rows' =
                              Append(not_found_rows,
                                     [list |-> list_name, isbn |-> <<"N", "/", "A">>,
                                      title |-> book.title, author |-> book.author])
                       /\ outcomes' = Append(outcomes, Unresolved(listIdx, book))
                       /\ UNCHANGED <<pc, usedSessions>>
                  ELSE /\ pc' = FirstStep
                       /\ usedSessions' = Append(usedSessions, SessionArg(driver, bookIdx))
                       /\ UNCHANGED <<not_found_rows, outcomes>>
               /\ UNCHANGED all_found
       ELSE /\ all_found' = IF StoresList(perlist_found)
                            THEN DictSet(all_found, list_name, perlist_found)
                            ELSE all_found
            /\ pc' = "next_list"
            /\ UNCHANGED <<bookIdx, total_processed, not_found_rows, usedSessions, outcomes>>
    /\ catkey' = None
    /\ navs' = <<>>
    /\ steps' = <<>>
    /\ UNCHANGED <<cfgVars, sessVars, pageVars, listIdx, books, perlist_found, total_found,
                   sleeps, fetchedTotal, reason, fetchVars, excVars, endVars,
                   reportVars, mailVars, harnessVars>>

(***************************************************************************)
(* search_library_catalog, lines 279-318                                   *)
(***************************************************************************)
Mode == IF pc \in {"r_get_isbn", "r_wait_isbn", "r_url_isbn", "r_links_isbn"}
        THEN "isbn" ELSE "title"

At(step) == pc = "r_" \o step \o "_" \o Mode

\* the name of the except clause that logs; a call that returns from the try
\* block logs none
ClauseNameMutSwapped(i) == <<"webdriver", "timeout", "unexpected">>[i]

ClauseName(i) == <<"timeout", "webdriver", "unexpected">>[i]

\* lines 312-318: an exception of class cls raised inside the try block
ResolveRaised(cls) ==
    LET i == FirstClause(ResolveClauses, cls, 1)
    IN IF i # 0
       THEN /\ reason' = ClauseName(i)
            /\ catkey' = None
            /\ pc' = "r_ret"
            /\ UNCHANGED excVars
       ELSE /\ Raise(cls, "resolve")
            /\ reason' = "uncaught"
            /\ UNCHANGED catkey

\* lines 295 and 309-311 and 318: where control goes once an extraction attempt of
\* the mode is over with key k
AfterExtractMutNoFallback(mode, k) == "r_ret"

AfterExtractMutFirstSession(mode, k) ==
    IF ~Truthy(k) /\ mode = "isbn" /\ driver = <<"session", 1>> THEN "r_get_title" ELSE "r_ret"

AfterExtractMutAlwaysTitle(mode, k) == IF mode = "isbn" THEN "r_get_title" ELSE "r_ret"

AfterExtract(mode, k) ==
    IF ~Truthy(k) /\ mode = "isbn" THEN "r_get_title" ELSE "r_ret"

\* what search_library_catalog returns for the final value k of catkey (lines 309-318)
ReturnValue(k) == IF Truthy(k) THEN k ELSE None

\* lines 283 and 297: driver.get(q)
ResolveGet ==
    /\ At("get")
    /\ navs' = Append(navs, Mode)
    /\ \/ \E p \in Pages :
             /\ location' = p.url
             /\ anchors' = p.links
             /\ steps' = Append(steps, <<"get", Mode>>)
             /\ pc' = "r_wait_" \o Mode
             /\ UNCHANGED <<catkey, reason, excVars>>
       \/ \E cls \in SessionFaults :
             /\ ResolveRaised(cls)
             \* a page-load timeout leaves the old page or whatever of the new one has loaded
             /\ \E p \in Pages \cup {[url |-> location, links |-> anchors]} :
                   /\ cls # "TimeoutException" => p.url = location /\ p.links = anchors
                   /\ location' = p.url
                   /\ anchors' = p.links
             /\ UNCHANGED steps
    /\ UNCHANGED <<cfgVars, sessVars, loopVars, accVars, fetchVars, usedSessions, endVars,
                   reportVars, mailVars, harnessVars>>

\* lines 284-286 and 298-300: WebDriverWait(driver, PAGE_TIMEOUT).until(...)
ResolveWait ==
    /\ At("wait")
    /\ \/ /\ UrlReady(location)
          /\ steps' = Append(steps, <<"wait", Mode>>)
          /\ pc' = "r_url_" \o Mode
          /\ UNCHANGED <<catkey, reason, excVars>>
       \/ /\ ~UrlReady(location)
          /\ ResolveRaised("TimeoutException")
          /\ UNCHANGED steps
       \/ /\ \E cls \in SessionFaults \ {"TimeoutException"} : ResolveRaised(cls)
          /\ UNCHANGED steps
    /\ UNCHANGED <<cfgVars, sessVars, pageVars, loopVars, accVars, fetchVars, navs,
                   usedSessions, endVars, reportVars, mailVars, harnessVars>>

\* lines 287-288 and 301-302: the key in the current location
ResolveUrl ==
    /\ At("url")
    /\ \/ LET k == _extract_catkey_from_url(location)
              next == IF Truthy(k) THEN AfterExtract(Mode, k) ELSE "r_links_" \o Mode
          IN /\ catkey' = k
             /\ steps' = Append(steps, <<"url", Mode>>)
             /\ pc' = next
             /\ reason' = IF next = "r_ret" THEN "none" ELSE reason
             /\ UNCHANGED excVars
       \/ /\ \E cls \in SessionFaults \ {"TimeoutException"} : ResolveRaised(cls)
          /\ UNCHANGED steps
    /\ UNCHANGED <<cfgVars, sessVars, pageVars, loopVars, accVars, fetchVars, navs,
                   usedSessions, endVars, reportVars, mailVars, harnessVars>>

\* lines 289-294 and 303-308: the key in the rendered links
ResolveLinks ==
    /\ At("links")
    /\ \/ LET k == FirstLinkKey(SelectLinks(anchors), catkey)
              next == AfterExtract(Mode, k)
          IN /\ catkey' = k
             /\ steps' = Append(steps, <<"links", Mode>>)
             /\ pc' = next
             /\ reason' = IF next = "r_ret" THEN "none" ELSE reason
             /\ UNCHANGED excVars
       \/ \* find_elements raises, or get_attribute on an anchor that has gone stale
          /\ \E cls \in (SessionFaults \ {"TimeoutException"})
                          \cup {"StaleElementReferenceException"} : ResolveRaised(cls)
          /\ UNCHANGED steps
    /\ UNCHANGED <<cfgVars, sessVars, pageVars, loopVars, accVars, fetchVars, navs,
                   usedSessions, endVars, reportVars, mailVars, harnessVars>>

(***************************************************************************)
(* main, lines 462-472: the result is recorded, then the pacing sleep      *)
(***************************************************************************)
\* line 463: `if catkey:` on what search_library_catalog returned
IsFoundMutNotEmpty(result) == result # <<>>

IsFound(result) == Truthy(result)

\* line 472: time.sleep(0.5), in milliseconds
PACING_MS == 500

\* line 472: the sleep at the end of the loop body, after either branch of `if catkey`
PacingDelayMutFoundOnly(found) == IF found THEN PACING_MS ELSE 0

PacingDelay(found) == PACING_MS

MainRecord ==
    /\ pc = "r_ret"
    /\ LET book == books[bookIdx]
           result == ReturnValue(catkey)
       IN IF IsFound(result)
          THEN /\ perlist_found' = Append(perlist_found, result)
               /\ total_found' = total_found + 1
               /\ UNCHANGED not_found_rows
          ELSE /\ not_found_rows' =
                      Append(not_found_rows,
                             [list |-> list_name, isbn |-> book.isbn13,
                              title |-> book.title, author |-> book.author])
               /\ UNCHANGED <<perlist_found, total_found>>
    /\ outcomes' = Append(outcomes, IF Truthy(ReturnValue(catkey))
                                     THEN Resolved(listIdx, ReturnValue(catkey))
                                     ELSE Unresolved(listIdx, books[bookIdx]))
    /\ sleeps' = sleeps + PacingDelay(IsFound(ReturnValue(catkey)))
    /\ pc' = "next_book"
    /\ catkey' = None
    /\ navs' = <<>>
    /\ steps' = <<>>
    /\ UNCHANGED <<cfgVars, sessVars, pageVars, loopVars, all_found, total_processed,
                   fetchedTotal, reason, fetchVars, usedSessions, excVars, endVars, reportVars, mailVars, harnessVars>>


(***************************************************************************)
(* Text: the str methods the reports use                                   *)
(***************************************************************************)
LowerCase ==
    <<"a", "b", "c", "d", "e", "f", "g", "h", "i", "j", "k", "l", "m",
      "n", "o", "p", "q", "r", "s", "t", "u", "v", "w", "x", "y", "z">>
UpperCase ==
    <<"A", "B", "C", "D", "E", "F", "G", "H", "I", "J", "K", "L", "M",
      "N", "O", "P", "Q", "R", "S", "T", "U", "V", "W", "X", "Y", "Z">>

IsLower(c) == \E i \in 1..Len(LowerCase) : LowerCase[i] = c
IsUpper(c) == \E i \in 1..Len(UpperCase) : UpperCase[i] = c
IsCased(c) == IsLower(c) \/ IsUpper(c)
ToUpper(c) ==
    IF IsLower(c) THEN UpperCase[CHOOSE i \in 1..Len(LowerCase) : LowerCase[i] = c] ELSE c
ToLower(c) ==
    IF IsUpper(c) THEN LowerCase[CHOOSE i \in 1..Len(UpperCase) : UpperCase[i] = c] ELSE c

\* s.replace(a, b) for single characters
StrReplace(s, a, b) == [i \in 1..Len(s) |-> IF s[i] = a THEN b ELSE s[i]]

\* s.title(): a cased character is upper-cased unless a cased character stands before it
StrTitle(s) ==
    [i \in 1..Len(s) |-> IF i > 1 /\ IsCased(s[i - 1]) THEN ToLower(s[i]) ELSE ToUpper(s[i])]

\* sep.join(parts)
RECURSIVE StrJoin(_, _)
StrJoin(sep, parts) ==
    IF parts = <<>> THEN <<>>
    ELSE IF Len(parts) = 1 THEN parts[1]
    ELSE parts[1] \o sep \o StrJoin(sep, Tail(parts))

\* str(n) for a natural number
RECURSIVE StrInt(_)
StrInt(n) ==
    LET d == <<"0", "1", "2", "3", "4", "5", "6", "7", "8", "9">>[(n % 10) + 1]
    IN IF n < 10 THEN <<d>> ELSE StrInt(n \div 10) \o <<d>>

(***************************************************************************)
(* generate_reports, lines 360-400, called at line 476                     *)
(***************************************************************************)
\* datetime.now() as strftime('%Y-%m-%d %H:%M:%S') gives it
Timestamp ==
    <<"2", "0", "2", "5", "-", "0", "1", "-", "0", "5", " ", "0", "6", ":", "0", "0", ":", "0", "0">>

\* line 376
DisplayName(name) == StrTitle(StrReplace(name, "-", " "))

\* lines 375-380: the lines of one list of the found report
FoundGroup(entry) ==
    << DisplayName(entry[1]) \o <<":">>,
       <<"C", "a", "t", "K", "e", "y", "s", ":", " ">> \o StrJoin(<<",">>, entry[2]),
       <<"C", "o", "u", "n", "t", ":", " ">> \o StrInt(Len(entry[2])),
       <<>> >>

RECURSIVE FoundGroups(_)
FoundGroups(found) ==
    IF found = <<>> THEN <<>> ELSE FoundGroup(Head(found)) \o FoundGroups(Tail(found))

\* lines 374, 380: all_keys
RECURSIVE AllKeys(_)
AllKeys(found) == IF found = <<>> THEN <<>> ELSE Head(found)[2] \o AllKeys(Tail(found))

\* lines 371-381: the found report, line by line (the dash of line 371 is
\* written as a hyphen)
FoundReport(found) ==
    << <<"N", "Y", "T", " ", "B", "e", "s", "t", "s", "e", "l", "l", "e", "r", "s", " ", "-",
         " ", "F", "o", "u", "n", "d", " ", "C", "a", "t", "K", "e", "y", "s">>,
       [i \in 1..60 |-> "="],
       <<>>,
       <<"G", "e", "n", "e", "r", "a", "t", "e", "d", ":", " ">> \o Timestamp,
       <<>> >>
    \o FoundGroups(found)
    \o << <<"A", "l", "l", " ", "C", "a", "t", "K", "e", "y", "s", " ", "C", "o", "m", "b", "i",
            "n", "e", "d", ":">>,
          StrJoin(<<",">>, AllKeys(found)) >>

\* csv.writer with the default dialect: a field holding the delimiter, the
\* quote character or a line end is quoted, its quotes doubled
CsvSpecial == {",", "\"", "\n", "\r"}

RECURSIVE DoubleQuotes(_)
DoubleQuotes(f) ==
    IF f = <<>> THEN <<>>
    ELSE (IF Head(f) = "\"" THEN <<"\"", "\"">> ELSE <<Head(f)>>) \o DoubleQuotes(Tail(f))

CsvFieldMutNoQuoting(f) == f

CsvField(f) ==
    IF \E i \in 1..Len(f) : f[i] \in CsvSpecial
    THEN <<"\"">> \o DoubleQuotes(f) \o <<"\"">>
    ELSE f

\* line 392: fieldnames
FieldNames ==
    << <<"l", "i", "s", "t">>, <<"i", "s", "b", "n">>, <<"t", "i", "t", "l", "e">>,
       <<"a", "u", "t", "h", "o", "r">> >>

CsvLine(fields) == StrJoin(<<",">>, [i \in 1..Len(fields) |-> CsvField(fields[i])])

\* lines 393-394: writeheader, writerows
NotFoundReport(rows) ==
    <<CsvLine(FieldNames)>>
    \o [i \in 1..Len(rows) |->
           CsvLine(<<rows[i].list, rows[i].isbn, rows[i].title, rows[i].author>>)]

\* lines 374-380: the mapping passed to generate_reports once the found report
\* is written; all_keys is a list of its own, the lists of the mapping are only read
FoundAfterReportsMutAliased(found) ==
    IF found = <<>> THEN found
    ELSE [found EXCEPT ![1] = <<found[1][1], AllKeys(found)>>]

FoundAfterReports(found) == found

\* lines 384 and 397: the except clause around the writing of a report
ReportClausesMutNone == <<>>

ReportClauses == <<"Exception">>

\* what open or write can raise
WriteOutcomes == {"ok", "OSError"}

GenerateReports ==
    /\ pc = "report"
    /\ \/ \* os.makedirs(OUTPUT_DIR) raises, outside any try
          /\ Raise("OSError", "report")
          /\ UNCHANGED <<attachments, reportVars, all_found>>
       \/ \* each report is written, or open/write raises at some point of the try
          \* block and the report is left out
          \E foundOut \in WriteOutcomes, nfOut \in WriteOutcomes :
             LET foundTried == all_found # <<>>
                 foundOk == foundTried /\ foundOut = "ok"
                 foundEscapes == /\ foundTried
                                 /\ ~foundOk
                                 /\ FirstClause(ReportClauses, foundOut, 1) = 0
                 nfTried == ~foundEscapes /\ not_found_rows # <<>>
                 nfOk == nfTried /\ nfOut = "ok"
                 nfEscapes == nfTried /\ ~nfOk /\ FirstClause(ReportClauses, nfOut, 1) = 0
             IN /\ foundReport' = IF foundOk THEN FoundReport(all_found) ELSE None
                /\ notFoundReport' = IF nfOk THEN NotFoundReport(not_found_rows) ELSE None
                /\ writeLog' =
                      (IF foundTried THEN <<[file |-> "found", ok |-> foundOk]>> ELSE <<>>)
                      \o (IF nfTried THEN <<[file |-> "notfound", ok |-> nfOk]>> ELSE <<>>)
                /\ attachments' = (IF foundOk THEN {"found"} ELSE {})
                                   \cup (IF nfOk THEN {"notfound"} ELSE {})
                /\ IF foundEscapes \/ nfEscapes
                   THEN Raise("OSError", "write")
                   ELSE /\ pc' = "email"
                        /\ UNCHANGED excVars
                /\ all_found' = FoundAfterReports(all_found)
                /\ UNCHANGED summary
    /\ UNCHANGED <<cfgVars, sessVars, pageVars, loopVars, perlist_found, not_found_rows,
                   total_processed, total_found, sleeps, fetchedTotal, outcomes, fetchVars,
                   resVars, usedSessions, emailCalls, emailOk, exitStatus, mailVars,
                   harnessVars>>

(***************************************************************************)
(* main, lines 477-486, with send_email_with_attachments, lines 323-355    *)
(***************************************************************************)
\* line 477: is send_email_with_attachments called
ShouldSendMutIgnoreNoEmail(noEmail, atts) == atts # {}

ShouldSend(noEmail, atts) == ~noEmail /\ atts # {}

\* dict.get(name, []) on the mapping
DictGet(d, name) ==
    IF \E i \in 1..Len(d) : d[i][1] = name
    THEN d[CHOOSE i \in 1..Len(d) : d[i][1] = name][2]
    ELSE <<>>

\* line 404: total_found = sum(len(v) for v in all_found_catkeys.values())
SummaryTotalFound(found) == Len(AllKeys(found))

\* line 405: total_not = len(all_not_found_books)
SummaryTotalNot(rows) == Len(rows)

\* lines 422-425: one line of the breakdown per configured list name, in the
\* order of NYT_LIST_NAMES
SummaryBreakdown(found, rows, names) ==
    [i \in 1..Len(names) |->
        [name |-> DisplayName(names[i]),
         found |-> Len(DictGet(found, names[i])),
         not_found |-> Len(SelectSeq(rows, LAMBDA b : b.list = names[i]))]]

\* lines 402-427: the numbers of the body
generate_email_summary(found, rows) ==
    [total_found |-> SummaryTotalFound(found),
     total_not |-> SummaryTotalNot(rows),
     breakdown |-> SummaryBreakdown(found, rows, NYT_LIST_NAMES)]

MainEmail ==
    /\ pc = "email"
    /\ IF ShouldSend(NYT_NO_EMAIL, attachments)
       THEN /\ summary' = <<generate_email_summary(all_found, not_found_rows)>>
            /\ emailCalls' = emailCalls + 1
            /\ emailOk' \in BOOLEAN
       ELSE UNCHANGED <<emailCalls, emailOk, summary>>
    /\ pc' = "finally"
    /\ UNCHANGED <<cfgVars, sessVars, pageVars, loopVars, accVars, fetchVars, resVars,
                   usedSessions, excVars, attachments, exitStatus, foundReport,
                   notFoundReport, writeLog, mailVars, harnessVars>>

(***************************************************************************)
(* main, lines 487-493: the finally clause, and the end of the process     *)
(***************************************************************************)
\* line 487: does the clean-up run, given whether an exception is propagating
CleanupRunsMutNoFinally(propagating) == ~propagating

CleanupRuns(propagating) == TRUE

\* line 492: the except clause around driver.quit()
QuitClauses == <<"Exception">>

MainFinally ==
    /\ pc = "finally"
    /\ IF CleanupRuns(exc # "none") /\ driver # None
       THEN /\ quitCalls' = quitCalls + 1
            /\ \/ /\ browser' = "quit"
                  /\ cleanup' = "ok"
                  /\ UNCHANGED excVars
               \/ \* driver.quit() raises; whether the browser is gone is not known
                  \E cls \in {"WebDriverException", "MaxRetryError"} :
                     /\ browser' \in {"quit", "running"}
                     /\ cleanup' = "failed"
                     /\ IF FirstClause(QuitClauses, cls, 1) # 0
                        THEN UNCHANGED excVars
                        ELSE /\ exc' = cls
                             /\ excSite' = "quit"
       ELSE UNCHANGED <<quitCalls, browser, cleanup, excVars>>
    /\ pc' = "done"
    /\ exitStatus' = IF exc' = "none" THEN "ok" ELSE "traceback"
    /\ UNCHANGED <<cfgVars, driver, sessionsCreated, pageVars, loopVars, accVars, fetchVars,
                   resVars, usedSessions, attachments, emailCalls, emailOk, reportVars, mailVars, harnessVars>>

Next ==
    \/ ValidateConfig
    \/ CreateWebdriver
    \/ MainNextList
    \/ FetchRequestFails
    \/ FetchResponse
    \/ FetchExhausted
    \/ MainAfterFetch
    \/ MainNextBook
    \/ ResolveGet
    \/ ResolveWait
    \/ ResolveUrl
    \/ ResolveLinks
    \/ MainRecord
    \/ GenerateReports
    \/ MainEmail
    \/ MainFinally

Spec == Init /\ [][Next]_vars

\* the run with its steps taken: main is one thread of control, and each step
\* is a computation or a call that returns, the list request within
\* REQUEST_TIMEOUT (line 215), a page load or a wait within PAGE_TIMEOUT (lines
\* 268, 284, 298), a sleep after its delay
InitLive ==
    /\ Init
    /\ Len(NYT_LIST_NAMES) <= MaxListsLive

SpecLive == InitLive /\ [][Next]_vars /\ WF_vars(Next)


(***************************************************************************)
(* send_email_with_attachments on its own, lines 323-355                   *)
(***************************************************************************)
\* lines 349-354
MailClausesMutSmtpOnly == <<"SMTPAuthenticationError", "SMTPException">>

MailClauses == <<"SMTPAuthenticationError", "SMTPException", "Exception">>

Done(op) == [op |-> op, ok |-> TRUE]
Failed(op) == [op |-> op, ok |-> FALSE]

\* an exception of class cls raised by operation op inside the try block
MailRaised(op, cls) ==
    /\ mailLog' = Append(mailLog, Failed(op))
    /\ IF FirstClause(MailClauses, cls, 1) # 0
       THEN /\ mailResult' = "False"
            /\ pc' = "m_ret"
            /\ UNCHANGED excVars
       ELSE /\ Raise(cls, "mail")
            /\ mailResult' = "raised"

\* operation op of the try block: it completes, or raises one of classes
MailStep(at, op, next, classes) ==
    /\ pc = at
    /\ \/ /\ mailLog' = Append(mailLog, Done(op))
          /\ pc' = next
          /\ UNCHANGED <<mailResult, excVars>>
       \/ \E cls \in classes : MailRaised(op, cls)
    /\ UNCHANGED <<cfgVars, sessVars, pageVars, loopVars, accVars, fetchVars, resVars,
                   usedSessions, endVars, reportVars, mailTodo, harnessVars>>

\* lines 324-326
MailStart ==
    /\ pc = "m_start"
    /\ IF RECEIVER_EMAILS = <<>>
       THEN /\ mailResult' = "False"
            /\ pc' = "m_ret"
       ELSE /\ pc' = "m_build"
            /\ UNCHANGED mailResult
    /\ UNCHANGED <<cfgVars, sessVars, pageVars, loopVars, accVars, fetchVars, resVars,
                   usedSessions, excVars, endVars, reportVars, mailTodo, mailLog, harnessVars>>

\* lines 328-332: the message and its text part
MailBuild == MailStep("m_build", "build", "m_attach", {"UnicodeEncodeError"})

\* lines 333-342: the next attachment: the file is gone (skipped), is read and
\* attached, or cannot be read
MailAttach ==
    /\ pc = "m_attach"
    /\ IF mailTodo = <<>>
       THEN /\ pc' = "m_connect"
            /\ UNCHANGED <<mailTodo, mailLog, mailResult, excVars>>
       ELSE \/ /\ mailTodo' = Tail(mailTodo)
               /\ \E op \in {"skip", "attach"} : mailLog' = Append(mailLog, Done(op))
               /\ UNCHANGED <<pc, mailResult, excVars>>
            \/ /\ MailRaised("attach", "PermissionError")
               /\ UNCHANGED mailTodo
    /\ UNCHANGED <<cfgVars, sessVars, pageVars, loopVars, accVars, fetchVars, resVars,
                   usedSessions, endVars, reportVars, harnessVars>>

\* line 343: smtplib.SMTP(SMTP_SERVER, SMTP_PORT)
MailConnect ==
    MailStep("m_connect", "connect", "m_starttls", {"ConnectionRefusedError", "SMTPConnectError"})

\* line 344; an exception in the with block runs SMTP.__exit__, whose QUIT can
\* replace it by an SMTPResponseException
MailStarttls ==
    MailStep("m_starttls", "starttls", "m_login",
             {"SMTPNotSupportedError", "SSLError", "SMTPResponseException"})

\* line 345
MailLogin ==
    MailStep("m_login", "login", "m_sendmail", {"SMTPAuthenticationError", "SMTPException"})

\* line 346
MailSendmail ==
    MailStep("m_sendmail", "sendmail", "m_close",
             {"SMTPRecipientsRefused", "SMTPServerDisconnected", "ValueError"})

\* the end of the with block (QUIT), then lines 347-348
MailClose ==
    /\ pc = "m_close"
    /\ \/ /\ mailLog' = Append(mailLog, Done("quit"))
          /\ mailResult' = "True"
          /\ pc' = "m_ret"
          /\ UNCHANGED excVars
       \/ MailRaised("quit", "SMTPResponseException")
    /\ UNCHANGED <<cfgVars, sessVars, pageVars, loopVars, accVars, fetchVars, resVars,
                   usedSessions, endVars, reportVars, mailTodo, harnessVars>>

\* the attachments dict in insertion order (lines 382 and 395)
AttachmentOrder(atts) == SelectSeq(<<"found", "notfound">>, LAMBDA a : a \in atts)

Receivers == {<<>>, <<"r1">>, <<"r1", "r2">>}

InitEmail ==
    /\ pc = "m_start"
    /\ MAX_RETRIES = DEFAULT_MAX_RETRIES
    /\ NYT_LIST_NAMES = <<HardcoverFiction>>
    /\ NYT_NO_EMAIL = FALSE
    /\ environ = AllSet
    /\ RECEIVER_EMAILS \in Receivers
    /\ browser = "running"
    /\ driver = <<"session", 1>>
    /\ sessionsCreated = 1
    /\ quitCalls = 0
    /\ cleanup = "none"
    /\ location = UrlBlank
    /\ anchors = <<>>
    /\ listIdx = 1
    /\ books = <<>>
    /\ bookIdx = 0
    /\ perlist_found = <<>>
    /\ all_found = <<>>
    /\ not_found_rows = <<>>
    /\ total_processed = 0
    /\ total_found = 0
    /\ sleeps = 0
    /\ fetchedTotal = 0
    /\ outcomes = <<>>
    /\ attempt = 0
    /\ waits = <<>>
    /\ respBody = NoBody
    /\ failed = NoFailure
    /\ catkey = None
    /\ navs = <<>>
    /\ steps = <<>>
    /\ reason = "none"
    /\ usedSessions = <<>>
    /\ exc = "none"
    /\ excSite = "none"
    /\ attachments \in SUBSET {"found", "notfound"}
    /\ emailCalls = 1
    /\ emailOk = FALSE
    /\ exitStatus = "running"
    /\ foundReport = None
    /\ notFoundReport = None
    /\ writeLog = <<>>
    /\ summary = <<>>
    /\ mailTodo = AttachmentOrder(attachments)
    /\ mailLog = <<>>
    /\ mailResult = "none"
    /\ url = <<>>
    /\ res = None
    /\ resLegacy = None
    /\ resGenerator = None
    /\ catalog = <<>>
    /\ firstCall = <<>>

NextEmail ==
    \/ MailStart
    \/ MailBuild
    \/ MailAttach
    \/ MailConnect
    \/ MailStarttls
    \/ MailLogin
    \/ MailSendmail
    \/ MailClose

SpecEmail == InitEmail /\ [][NextEmail]_vars

(***************************************************************************)
(* fetch_nyt_list on its own, for every NYT_MAX_RETRIES up to the bound    *)
(***************************************************************************)
InitFetch ==
    /\ pc = "fetch"
    /\ MAX_RETRIES \in 0..MaxRetriesCfg
    /\ NYT_LIST_NAMES \in SeqsOfLen(ListNames, 1)
    /\ NYT_NO_EMAIL = FALSE
    /\ environ = AllSet
    /\ RECEIVER_EMAILS = <<"r1">>
    /\ browser = "running"
    /\ driver = <<"session", 1>>
    /\ sessionsCreated = 1
    /\ quitCalls = 0
    /\ cleanup = "none"
    /\ location = UrlBlank
    /\ anchors = <<>>
    /\ listIdx = 1
    /\ books = <<>>
    /\ bookIdx = 0
    /\ perlist_found = <<>>
    /\ all_found = <<>>
    /\ not_found_rows = <<>>
    /\ total_processed = 0
    /\ total_found = 0
    /\ sleeps = 0
    /\ fetchedTotal = 0
    /\ outcomes = <<>>
    /\ attempt = 0
    /\ waits = <<>>
    /\ respBody = NoBody
    /\ failed = NoFailure
    /\ catkey = None
    /\ navs = <<>>
    /\ steps = <<>>
    /\ reason = "none"
    /\ usedSessions = <<>>
    /\ exc = "none"
    /\ excSite = "none"
    /\ attachments = {}
    /\ emailCalls = 0
    /\ emailOk = FALSE
    /\ exitStatus = "running"
    /\ foundReport = None
    /\ notFoundReport = None
    /\ writeLog = <<>>
    /\ summary = <<>>
    /\ mailTodo = <<>>
    /\ mailLog = <<>>
    /\ mailResult = "none"
    /\ url = <<>>
    /\ res = None
    /\ resLegacy = None
    /\ resGenerator = None
    /\ catalog = <<>>
    /\ firstCall = <<>>

NextFetch ==
    \/ FetchRequestFails
    \/ FetchResponse
    \/ FetchExhausted

SpecFetch == InitFetch /\ [][NextFetch]_vars

(***************************************************************************)
(* _extract_catkey_from_url on its own, for every string made of at most   *)
(* MaxChunks of these pieces                                               *)
(***************************************************************************)
Chunks ==
    { Marker, <<"S", "D", "_", "I", "L", "S">>, <<":">>, <<"4">>, <<"8", "2">>, <<"/">>,
      TailOne }

RECURSIVE Flatten(_)
Flatten(ss) == IF ss = <<>> THEN <<>> ELSE Head(ss) \o Flatten(Tail(ss))

LocationStrings == {Flatten(ss) : ss \in SeqsUpTo(Chunks, MaxChunks)}

InitExtract ==
    /\ pc = "extract"
    /\ url \in LocationStrings
    /\ res = None
    /\ resLegacy = None
    /\ resGenerator = None
    /\ catalog = <<>>
    /\ firstCall = <<>>
    /\ MAX_RETRIES = DEFAULT_MAX_RETRIES
    /\ NYT_LIST_NAMES = <<>>
    /\ NYT_NO_EMAIL = FALSE
    /\ environ = AllSet
    /\ RECEIVER_EMAILS = <<"r1">>
    /\ InitRun

Extract ==
    /\ pc = "extract"
    /\ res' = _extract_catkey_from_url(url)
    /\ pc' = "extracted"
    /\ UNCHANGED <<cfgVars, sessVars, pageVars, loopVars, accVars, fetchVars, resVars,
                   usedSessions, excVars, endVars, reportVars, mailVars, url,
                   resLegacy, resGenerator, catalog, firstCall>>

\* nyt_bestsellers_scraper.py, line 198: the same string given to the legacy pattern
ExtractLegacy ==
    /\ pc = "extracted"
    /\ resLegacy' = LegacyExtract(url)
    /\ pc' = "extracted_legacy"
    /\ UNCHANGED <<cfgVars, sessVars, pageVars, loopVars, accVars, fetchVars, resVars,
                   usedSessions, excVars, endVars, reportVars, mailVars, url, res,
                   resGenerator, catalog, firstCall>>

\* NYT-to-Library-CatKey-Generator.py, line 149: and to the generator script's
ExtractGenerator ==
    /\ pc = "extracted_legacy"
    /\ resGenerator' = GeneratorExtract(url)
    /\ pc' = "extracted_all"
    /\ UNCHANGED <<cfgVars, sessVars, pageVars, loopVars, accVars, fetchVars, resVars,
                   usedSessions, excVars, endVars, reportVars, mailVars, url, res,
                   resLegacy, catalog, firstCall>>

NextExtract ==
    \/ Extract
    \/ ExtractLegacy
    \/ ExtractGenerator

SpecExtract == InitExtract /\ [][NextExtract]_vars

(***************************************************************************)
(* search_library_catalog called twice for one identifier, each time on a  *)
(* session of its own, against a catalog that answers each request the     *)
(* same way both times                                                     *)
(***************************************************************************)
NoFault == <<"none", "none">>

\* what can go wrong at a step of a mode; a wait times out when the page the
\* get landed on never shows a result, which the page decides
Faults ==
    {NoFault}
    \cup ({"get"} \X SessionFaults)
    \cup ({"wait", "url", "links"} \X (SessionFaults \ {"TimeoutException"}))
    \cup {<<"links", "StaleElementReferenceException">>}

Modes == {"isbn", "title"}

\* the answer to the request of one mode: the page it lands on, and the step
\* at which the session fails, if any
Catalogs == [Modes -> [page : Pages, fault : Faults]]

\* where a session can be when a call starts: just created, or on the page of
\* an earlier record
SessionStarts == {UrlBlank, UrlDetailKey}

InitTwin ==
    /\ pc = "r_get_isbn"
    /\ catalog \in Catalogs
    /\ firstCall = <<>>
    /\ MAX_RETRIES = DEFAULT_MAX_RETRIES
    /\ NYT_LIST_NAMES = <<HardcoverFiction>>
    /\ NYT_NO_EMAIL = FALSE
    /\ environ = AllSet
    /\ RECEIVER_EMAILS = <<"r1">>
    /\ browser = "running"
    /\ driver = <<"session", 1>>
    /\ sessionsCreated = 1
    /\ quitCalls = 0
    /\ cleanup = "none"
    /\ location \in SessionStarts
    /\ anchors = <<>>
    /\ listIdx = 1
    /\ books = <<>>
    /\ bookIdx = 0
    /\ perlist_found = <<>>
    /\ all_found = <<>>
    /\ not_found_rows = <<>>
    /\ total_processed = 0
    /\ total_found = 0
    /\ sleeps = 0
    /\ fetchedTotal = 0
    /\ outcomes = <<>>
    /\ attempt = 0
    /\ waits = <<>>
    /\ respBody = NoBody
    /\ failed = NoFailure
    /\ catkey = None
    /\ navs = <<>>
    /\ steps = <<>>
    /\ reason = "none"
    /\ usedSessions = <<>>
    /\ exc = "none"
    /\ excSite = "none"
    /\ attachments = {}
    /\ emailCalls = 0
    /\ emailOk = FALSE
    /\ exitStatus = "running"
    /\ foundReport = None
    /\ notFoundReport = None
    /\ writeLog = <<>>
    /\ summary = <<>>
    /\ mailTodo = <<>>
    /\ mailLog = <<>>
    /\ mailResult = "none"
    /\ url = <<>>
    /\ res = None
    /\ resLegacy = None
    /\ resGenerator = None

\* the step of search_library_catalog taken is the one the catalog answers
\* with: it raises the fault the catalog has for this step of this mode, and
\* completes when the catalog has none (a wait completes when the page shows a
\* result and times out when it does not)
FollowsCatalog(step) ==
    LET answer == catalog[Mode]
        raised == steps' = steps
    IN IF answer.fault[1] = step
       THEN /\ raised
            /\ LET i == FirstClause(ResolveClauses, answer.fault[2], 1)
               IN IF i # 0 THEN reason' = ClauseName(i) ELSE exc' = answer.fault[2]
       ELSE /\ step = "get" => ~raised /\ location' = answer.page.url
                                       /\ anchors' = answer.page.links
            /\ step \in {"url", "links"} => ~raised
            /\ step = "wait" /\ raised => ~UrlReady(location) /\ reason' = "timeout"

TwinGet == ResolveGet /\ FollowsCatalog("get")
TwinWait == ResolveWait /\ FollowsCatalog("wait")
TwinUrl == ResolveUrl /\ FollowsCatalog("url")
TwinLinks == ResolveLinks /\ FollowsCatalog("links")

\* the first call has returned: the second call, on another session
TwinSecondCall ==
    /\ pc = "r_ret"
    /\ firstCall = <<>>
    /\ firstCall' = <<[ret |-> ReturnValue(catkey), navs |-> navs, steps |-> steps,
                       reason |-> reason]>>
    /\ driver' = <<"session", 2>>
    /\ sessionsCreated' = 2
    /\ location' \in SessionStarts
    /\ anchors' = <<>>
    /\ catkey' = None
    /\ navs' = <<>>
    /\ steps' = <<>>
    /\ pc' = "r_get_isbn"
    /\ UNCHANGED <<cfgVars, browser, quitCalls, cleanup, loopVars, accVars, fetchVars, reason,
                   usedSessions, excVars, endVars, reportVars, mailVars, url, res, resLegacy,
                   resGenerator, catalog>>

NextTwin ==
    \/ TwinGet
    \/ TwinWait
    \/ TwinUrl
    \/ TwinLinks
    \/ TwinSecondCall

SpecTwin == InitTwin /\ [][NextTwin]_vars


(***************************************************************************)
(* The two other copies of the program: NYT-to-Library-CatKey-Generator.py *)
(* (pc "g_...") and nyt_bestsellers_scraper.py (pc "l_..."), their main    *)
(* from start to the end of the browser session                            *)
(***************************************************************************)
\* generator, lines 105-122: the items kept; only the first entry of 'isbns'
\* is looked at, and the identifier is kept as it came
RECURSIVE GeneratorParseBooks(_, _)
GeneratorParseBooks(items, out) ==
    IF items = <<>> THEN out
    ELSE LET b == Head(items)
             isbn13 == IF JTruthy(b.primary_isbn13) \/ b.isbns = <<>>
                       THEN b.primary_isbn13
                       ELSE b.isbns[1]
         IN IF JTruthy(isbn13)
            THEN GeneratorParseBooks(Tail(items),
                                     Append(out, [isbn13 |-> isbn13, title |-> b.title,
                                                  author |-> b.author]))
            ELSE GeneratorParseBooks(Tail(items), out)

\* generator, line 123: the one except clause of its fetch_nyt_list
GeneratorFetchClauses == <<"RequestException">>

\* legacy, lines 156-164: the loop over 'isbns' stops at the first truthy
\* isbn13 and else leaves the last one met
RECURSIVE LegacyIsbn(_, _)
LegacyIsbn(ents, last) ==
    IF ents = <<>> THEN last
    ELSE IF JTruthy(Head(ents)) THEN Head(ents)
         ELSE LegacyIsbn(Tail(ents), Head(ents))

\* legacy, lines 155-176: the items kept (none of the modelled items has
\* 'book_details', so the fallback of lines 166-170 does not apply)
RECURSIVE LegacyParseBooks(_, _)
LegacyParseBooks(items, out) ==
    IF items = <<>> THEN out
    ELSE LET isbn13 == LegacyIsbn(Head(items).isbns, JNull)
         IN IF JTruthy(isbn13)
            THEN LegacyParseBooks(Tail(items), Append(out, [isbn13 |-> isbn13]))
            ELSE LegacyParseBooks(Tail(items), out)

\* legacy, line 142 as shipped, and lines 140-141: what the deployer is told to put
PlaceholderBase ==
    <<"Y", "O", "U", "R", "_", "L", "I", "B", "R", "A", "R", "Y", "_", "C", "A", "T", "A", "L", "O", "G",
      "_", "B", "A", "S", "E", "_", "U", "R", "L">>
PlaceholderClient ==
    <<"Y", "O", "U", "R", "_", "L", "I", "B", "R", "A", "R", "Y", "_", "C", "L", "I", "E", "N", "T",
      "_", "N", "A", "M", "E">>
LCPL_BASE_SEARCH_URL == PlaceholderBase \o <<"/">> \o PlaceholderClient \o <<"/">> \o UrlResults
LcplConfigured == <<"l", "c", "p", "l", "/">> \o UrlResults

\* legacy, line 256
NotConfigured(u) == Contains(u, PlaceholderBase) \/ Contains(u, PlaceholderClient)

\* what the variants' mains leave alone
variantRest ==
    <<cfgVars, cleanup, anchors, perlist_found, not_found_rows, total_processed, total_found,
      fetchedTotal, outcomes, fetchVars, navs, steps, reason, attachments, emailCalls, emailOk,
      reportVars, mailVars, res, resLegacy, resGenerator, catalog, firstCall>>

InitVariants ==
    /\ pc \in {"g_create", "l_fetch"}
    /\ MAX_RETRIES = DEFAULT_MAX_RETRIES
    /\ NYT_LIST_NAMES \in ConfiguredLists
    /\ NYT_LIST_NAMES # <<>>
    /\ NYT_NO_EMAIL = FALSE
    /\ environ = AllSet
    /\ RECEIVER_EMAILS = <<"r1">>
    /\ InitRun
    /\ url \in IF pc = "l_fetch" THEN {LCPL_BASE_SEARCH_URL, LcplConfigured} ELSE {<<>>}
    /\ res = None
    /\ resLegacy = None
    /\ resGenerator = None
    /\ catalog = <<>>
    /\ firstCall = <<>>

\* an exception leaves main: the interpreter prints the traceback and exits
LeavesMain(cls, site) ==
    /\ exc' = cls
    /\ excSite' = site
    /\ exitStatus' = "traceback"
    /\ pc' = "done"

\* generator lines 139-161, legacy lines 188-218: one lookup on the session.
\* Every exception is caught inside and gives None.
VariantLookup(script) ==
    /\ usedSessions' = Append(usedSessions, driver)
    /\ \E p \in Pages, f \in {"none"} \cup SessionFaults :
          /\ location' = IF f = "none" THEN p.url ELSE location
          /\ catkey' = IF f = "none" /\ Contains(p.url, SegDetail)
                       THEN IF script = "legacy" THEN LegacyExtract(p.url)
                            ELSE GeneratorExtract(p.url)
                       ELSE None

\* driver.quit(): the call is made, and it can itself raise
VariantQuit ==
    /\ quitCalls' = quitCalls + 1
    /\ driver' = driver
    /\ sessionsCreated' = sessionsCreated
    /\ \/ /\ browser' = "quit"
          /\ exitStatus' = IF exc = "none" \/ pc = "l_finally" THEN "ok" ELSE exitStatus
          /\ pc' = "done"
          /\ UNCHANGED excVars
       \/ /\ browser' = browser
          /\ LeavesMain("WebDriverException", "quit")

\* generator, lines 207-208: the session is created outside any try
GeneratorCreate ==
    /\ pc = "g_create"
    /\ \/ /\ LeavesMain("WebDriverException", "create")
          /\ UNCHANGED <<browser, driver, sessionsCreated>>
       \/ /\ browser' = "running"
          /\ sessionsCreated' = sessionsCreated + 1
          /\ driver' = <<"session", sessionsCreated + 1>>
          /\ pc' = "g_makedirs"
          /\ UNCHANGED <<excVars, exitStatus>>
    /\ UNCHANGED <<variantRest, quitCalls, location, loopVars, all_found, sleeps, catkey,
                   usedSessions, url>>

\* generator, line 211
GeneratorMakedirs ==
    /\ pc = "g_makedirs"
    /\ \/ LeavesMain("OSError", "makedirs")
       \/ /\ pc' = "g_next_list"
          /\ UNCHANGED <<excVars, exitStatus>>
    /\ UNCHANGED <<variantRest, browser, driver, sessionsCreated, quitCalls, location, loopVars,
                   all_found, sleeps, catkey, usedSessions, url>>

\* generator, line 216, and line 265 when the lists are done
GeneratorNextList ==
    /\ pc = "g_next_list"
    /\ IF listIdx < Len(NYT_LIST_NAMES)
       THEN /\ listIdx' = listIdx + 1
            /\ pc' = "g_fetch"
            /\ UNCHANGED <<browser, quitCalls, excVars, exitStatus>>
       ELSE /\ VariantQuit
            /\ UNCHANGED listIdx
    /\ UNCHANGED <<variantRest, driver, sessionsCreated, location, books, bookIdx, all_found,
                   sleeps, catkey, usedSessions, url>>

\* generator, lines 217-220
GeneratorFetched(bs) ==
    /\ books' = bs
    /\ bookIdx' = 0
    /\ pc' = IF bs = <<>> THEN "g_next_list" ELSE "g_next_book"
    /\ UNCHANGED <<excVars, exitStatus>>

\* generator, lines 93-125 called at line 217: one attempt; what the single
\* except clause does not catch leaves fetch_nyt_list and main
GeneratorFetchRaised(cls) ==
    IF FirstClause(GeneratorFetchClauses, cls, 1) # 0
    THEN GeneratorFetched(<<>>)
    ELSE /\ LeavesMain(cls, "fetch")
         /\ UNCHANGED <<books, bookIdx>>

GeneratorFetch ==
    /\ pc = "g_fetch"
    /\ \/ \E f \in RequestOutcomes : GeneratorFetchRaised(f.cls)
       \/ \E body \in Bodies :
             CASE body.kind = "not_json" ->
                     \E cls \in {"JSONDecodeError", "ValueError"} : GeneratorFetchRaised(cls)
               [] body.kind = "results_not_mapping" ->
                     \* line 103: data.get('results', {}) is a list, it has no .get
                     GeneratorFetchRaised("AttributeError")
               [] OTHER -> GeneratorFetched(GeneratorParseBooks(body.books, <<>>))
    /\ UNCHANGED <<variantRest, browser, driver, sessionsCreated, quitCalls, location, listIdx,
                   all_found, sleeps, catkey, usedSessions, url>>

\* generator, lines 231-257: the next book and its lookup
GeneratorNextBook ==
    /\ pc = "g_next_book"
    /\ IF bookIdx < Len(books)
       THEN /\ bookIdx' = bookIdx + 1
            /\ VariantLookup("generator")
            /\ UNCHANGED pc
       ELSE /\ pc' = "g_next_list"
            /\ UNCHANGED <<bookIdx, location, catkey, usedSessions>>
    /\ UNCHANGED <<variantRest, browser, driver, sessionsCreated, quitCalls, listIdx, books,
                   all_found, sleeps, excVars, exitStatus, url>>

\* legacy, lines 144-184: every exception is caught, what was gathered is returned
LegacyFetchData ==
    {<<>>} \cup {LegacyParseBooks(body.books, <<>>) : body \in {b \in Bodies : b.kind = "ok"}}

\* legacy, lines 222-228: all the lists are fetched before there is a browser
LegacyFetchLists ==
    /\ pc = "l_fetch"
    /\ IF listIdx < Len(NYT_LIST_NAMES)
       THEN /\ listIdx' = listIdx + 1
            /\ \E data \in LegacyFetchData :
                  all_found' = IF data # <<>>
                               THEN DictSet(all_found, NYT_LIST_NAMES[listIdx + 1], data)
                               ELSE all_found
            /\ UNCHANGED pc
       ELSE /\ pc' = "l_create"
            /\ UNCHANGED <<listIdx, all_found>>
    /\ UNCHANGED <<variantRest, sessVars, location, books, bookIdx, sleeps, catkey,
                   usedSessions, excVars, exitStatus, url>>

\* legacy, lines 246-260: inside the try; line 292 catches what is raised
LegacyCreate ==
    /\ pc = "l_create"
    /\ \/ /\ exc' = "WebDriverException"
          /\ excSite' = "create"
          /\ pc' = "l_finally"
          /\ UNCHANGED <<browser, driver, sessionsCreated, listIdx>>
       \/ /\ browser' = "running"
          /\ sessionsCreated' = sessionsCreated + 1
          /\ driver' = <<"session", sessionsCreated + 1>>
          /\ listIdx' = 0
          /\ pc' = IF NotConfigured(url) THEN "l_finally" ELSE "l_next_list"
          /\ UNCHANGED excVars
    /\ UNCHANGED <<variantRest, quitCalls, location, books, bookIdx, all_found, sleeps, catkey,
                   usedSessions, exitStatus, url>>

\* legacy, lines 262-264 and 275
LegacyNextList ==
    /\ pc = "l_next_list"
    /\ IF listIdx < Len(all_found)
       THEN /\ listIdx' = listIdx + 1
            /\ books' = all_found[listIdx + 1][2]
            /\ bookIdx' = 0
            /\ pc' = "l_next_book"
       ELSE /\ pc' = "l_finally"
            /\ UNCHANGED loopVars
    /\ UNCHANGED <<variantRest, sessVars, location, all_found, sleeps, catkey, usedSessions,
                   excVars, exitStatus, url>>

\* legacy, lines 265-274: the next book, its lookup and the pause of one second
LegacyNextBook ==
    /\ pc = "l_next_book"
    /\ IF bookIdx < Len(books)
       THEN /\ bookIdx' = bookIdx + 1
            /\ VariantLookup("legacy")
            /\ sleeps' = sleeps + 1000
            /\ UNCHANGED pc
       ELSE /\ pc' = "l_next_list"
            /\ UNCHANGED <<bookIdx, location, catkey, usedSessions, sleeps>>
    /\ UNCHANGED <<variantRest, sessVars, listIdx, books, all_found, excVars, exitStatus, url>>

\* legacy, lines 295-297
LegacyFinally ==
    /\ pc = "l_finally"
    /\ IF driver # None
       THEN VariantQuit
       ELSE /\ exitStatus' = "ok"
            /\ pc' = "done"
            /\ UNCHANGED <<sessVars, excVars>>
    /\ UNCHANGED <<variantRest, cleanup, location, loopVars, all_found, sleeps, catkey,
                   usedSessions, url>>

NextVariants ==
    \/ GeneratorCreate
    \/ GeneratorMakedirs
    \/ GeneratorNextList
    \/ GeneratorFetch
    \/ GeneratorNextBook
    \/ LegacyFetchLists
    \/ LegacyCreate
    \/ LegacyNextList
    \/ LegacyNextBook
    \/ LegacyFinally

SpecVariants == InitVariants /\ [][NextVariants]_vars


(***************************************************************************)
(* search_library_catalog called for one identifier and then, on the same  *)
(* session and with whatever the first call left in it, for another        *)
(***************************************************************************)
\* the session is new when the first call starts
InitHistory ==
    /\ InitTwin
    /\ location = UrlBlank

\* lines 452-462: the first call has returned, main goes on to the next book
\* and calls again with the same driver; the catalog has its own answers to
\* the requests for that identifier
HistoryNextCall ==
    /\ pc = "r_ret"
    /\ firstCall = <<>>
    /\ firstCall' = <<[ret |-> ReturnValue(catkey), reason |-> reason, left |-> location]>>
    /\ catalog' \in Catalogs
    /\ catkey' = None
    /\ navs' = <<>>
    /\ steps' = <<>>
    /\ pc' = FirstStep
    /\ UNCHANGED <<cfgVars, sessVars, pageVars, loopVars, accVars, fetchVars, reason,
                   usedSessions, excVars, endVars, reportVars, mailVars, url, res, resLegacy,
                   resGenerator>>

NextHistory ==
    \/ TwinGet
    \/ TwinWait
    \/ TwinUrl
    \/ TwinLinks
    \/ HistoryNextCall

SpecHistory == InitHistory /\ [][NextHistory]_vars


(***************************************************************************)
(* Properties                                                              *)
(***************************************************************************)
ResolvePcs ==
    {"r_get_isbn", "r_wait_isbn", "r_url_isbn", "r_links_isbn",
     "r_get_title", "r_wait_title", "r_url_title", "r_links_title"}

\* the except clauses that log a session fault
FaultReasons == {"timeout", "webdriver", "unexpected"}

\* a CatKey: one or more digits
IsKey(k) == k # None /\ k # <<>> /\ \A i \in 1..Len(k) : k[i] \in Digits

\* C1: search_library_catalog never lets an exception out, whatever the session
\* does at any step of either mode: no exception of the run was raised out of
\* it, and what it returns is a key or None.
C1_ResolveNeverRaises ==
    /\ excSite # "resolve"
    /\ pc \in ResolvePcs => exc = "none"
    /\ pc = "r_ret" =>
          /\ exc = "none"
          /\ ReturnValue(catkey) = None \/ IsKey(ReturnValue(catkey))
          /\ reason \in FaultReasons => ReturnValue(catkey) = None

\* a driver crash in title mode was caught and the call returned None
C1_Witness ==
    /\ pc = "r_ret"
    /\ reason = "unexpected"
    /\ navs = <<"isbn", "title">>
    /\ ReturnValue(catkey) = None

\* C2: when the ISBN-mode page loaded and neither its location nor its links
\* gave a key, the title-mode request has been issued by the time the call
\* returns None; a None that no exception caused comes only after the links of
\* the title-mode page were scanned too.
C2_FallbackOrdering ==
    pc = "r_ret" /\ ~Truthy(ReturnValue(catkey)) =>
        /\ (Len(steps) >= 4 /\ steps[4] = <<"links", "isbn">>) => navs = <<"isbn", "title">>
        /\ reason = "none" =>
              /\ navs = <<"isbn", "title">>
              /\ Len(steps) = 8
              /\ steps[8] = <<"links", "title">>

\* both modes loaded a page and neither gave a key
C2_Witness ==
    /\ pc = "r_ret"
    /\ reason = "none"
    /\ ~Truthy(ReturnValue(catkey))
    /\ Len(steps) = 8
    /\ navs = <<"isbn", "title">>

\* C3 (as claimed): a call that ends by a timeout has made the title-mode attempt
\* too, a timeout in ISBN mode does not stop the strategy chain.
C3_TimeoutNotHardStop ==
    pc = "r_ret" /\ reason = "timeout" => navs = <<"isbn", "title">>

MarkerThenDigit(s, i) ==
    /\ i + 7 <= Len(s)
    /\ SubSeq(s, i, i + 6) = <<"S", "D", "_", "I", "L", "S", ":">>
    /\ s[i + 7] \in Digits

\* C5: the extraction gives the maximal run of digits that follows the leftmost
\* 'SD_ILS:' that a digit follows, and None when there is no such place.
C5_ExtractionGrammar ==
    pc = "extracted" =>
        IF \E i \in 1..Len(url) : MarkerThenDigit(url, i)
        THEN LET i == CHOOSE i \in 1..Len(url) :
                          /\ MarkerThenDigit(url, i)
                          /\ \A j \in 1..(i - 1) : ~MarkerThenDigit(url, j)
             IN \E b \in (i + 7)..Len(url) :
                   /\ res = SubSeq(url, i + 7, b)
                   /\ \A k \in (i + 7)..b : url[k] \in Digits
                   /\ b = Len(url) \/ url[b + 1] \notin Digits
        ELSE res = None

\* 'SD_ILS::SD_ILS:82': the first 'SD_ILS:' has no digit after it, the key is
\* that of the second
C5_Witness ==
    /\ pc = "extracted"
    /\ url = Marker \o <<":">> \o Marker \o <<"8", "2">>
    /\ res = <<"8", "2">>

\* C6: when the first k requests fail and the next one succeeds (k below
\* MAX_RETRIES), fetch_nyt_list returns the candidates of that response and has
\* slept exactly k times; attempt is k, the number of failed requests.
C6_RetrySuccess ==
    pc = "fetched" /\ respBody # NoBody =>
        /\ attempt < MAX_RETRIES
        /\ Len(waits) = attempt
        /\ books = ParseBooks(respBody.books, <<>>).out
        /\ exc = "none"

\* MAX_RETRIES = 3, two failures, then a response with a book: two waits
C6_Witness ==
    /\ pc = "fetched"
    /\ MAX_RETRIES = 3
    /\ attempt = 2
    /\ Len(waits) = 2
    /\ books # <<>>

\* C7: a timeout, a connection error or an HTTP error never leaves
\* fetch_nyt_list as an exception, and when the attempts are used up it returns
\* the empty list.
C7_RetryExhaustion ==
    /\ excSite = "fetch" => exc \notin RequestFailures
    /\ pc = "fetch" => attempt <= MAX_RETRIES
    /\ pc = "fetched" /\ respBody = NoBody =>
          /\ attempt = MAX_RETRIES
          /\ books = <<>>
          /\ exc = "none"

\* three attempts, all failed
C7_Witness ==
    /\ pc = "fetched"
    /\ respBody = NoBody
    /\ MAX_RETRIES = 3
    /\ attempt = 3
    /\ books = <<>>

\* C8 (as claimed): whatever the list request brings, no exception leaves
\* fetch_nyt_list for main.
C8_NoUpstreamErrorCrash == excSite # "fetch"

\* C9: nothing in the per-book loop ends the run: no exception leaves the
\* search, and a run that passed validation and in which neither the WebDriver
\* launch nor a list fetch raised reaches report generation with every fetched
\* candidate processed; if it then ends with a traceback, report generation
\* raised it.
C9_LoopNeverTerminatesRun ==
    /\ excSite # "resolve"
    /\ pc \in ResolvePcs \cup {"r_ret", "next_book"} => exc = "none"
    /\ pc \in {"report", "email"} =>
          /\ total_processed = fetchedTotal
          /\ total_processed = total_found + Len(not_found_rows)
          /\ listIdx = Len(NYT_LIST_NAMES)
          /\ exc = "none"
    /\ pc = "done" /\ configOk /\ excSite \notin {"create", "fetch"} =>
          /\ total_processed = fetchedTotal
          /\ listIdx = Len(NYT_LIST_NAMES)
          /\ exitStatus = "ok" \/ excSite = "report"

\* four candidates, the last search ended by a timeout, main is at the reports
C9_Witness ==
    /\ pc = "report"
    /\ reason = "timeout"
    /\ total_processed = 4
    /\ Len(not_found_rows) >= 2

\* C10: after a session fault in the search for a candidate, that candidate is
\* the last not-found row and the search for the next candidate runs on the same
\* session; the run never has a second session.
C10_SameSessionAfterFault ==
    /\ sessionsCreated <= 1
    /\ driver \in {None, <<"session", 1>>}
    /\ \A i \in 1..Len(usedSessions) : usedSessions[i] = <<"session", 1>>
    /\ pc = "r_ret" /\ reason \in FaultReasons => ~IsFound(ReturnValue(catkey))
    /\ pc \in ResolvePcs /\ reason \in FaultReasons /\ bookIdx >= 2 =>
          /\ not_found_rows # <<>>
          /\ not_found_rows[Len(not_found_rows)] =
                [list |-> list_name, isbn |-> books[bookIdx - 1].isbn13,
                 title |-> books[bookIdx - 1].title, author |-> books[bookIdx - 1].author]
          /\ Len(usedSessions) >= 2
          /\ usedSessions[Len(usedSessions)] = usedSessions[Len(usedSessions) - 1]
          /\ usedSessions[Len(usedSessions)] = driver

\* the search for the first book hit a WebDriver error, the second is under way
C10_Witness ==
    /\ pc = "r_wait_isbn"
    /\ bookIdx = 2
    /\ reason = "webdriver"
    /\ Len(not_found_rows) = 1


\* the keys held by the resolved mapping, over all its lists
RECURSIVE NumKeys(_)
NumKeys(d) == IF d = <<>> THEN 0 ELSE Len(Head(d)[2]) + NumKeys(Tail(d))

\* C11 (as claimed): every processed candidate is recorded exactly once, as a key
\* of the resolved mapping or as an unresolved row: when the loop over the
\* lists is over, the keys of the mapping and the unresolved rows together are
\* as many as the candidates processed, for any configured sequence of names.
C11_ExactlyOnceRecording ==
    pc \in {"report", "email"} =>
        NumKeys(all_found) + Len(not_found_rows) = total_processed


\* C12: send_email_with_attachments is not called in a run with NYT_NO_EMAIL
\* set, whatever artifacts were written, and not called in a run whose
\* attachment set is empty; it is called at most once.
C12_NoSendWhenSuppressedOrEmpty ==
    /\ emailCalls <= 1
    /\ emailCalls > 0 => ~NYT_NO_EMAIL /\ attachments # {}

\* a run with NYT_NO_EMAIL set ended normally with artifacts written and no call
C12_Witness ==
    /\ pc = "done"
    /\ exitStatus = "ok"
    /\ NYT_NO_EMAIL
    /\ attachments = {"found", "notfound"}
    /\ emailCalls = 0


\* the operations of send_email_with_attachments that completed
MailDone == {mailLog[i].op : i \in {j \in 1..Len(mailLog) : mailLog[j].ok}}

\* an operation of send_email_with_attachments raised
MailFailed == \E i \in 1..Len(mailLog) : ~mailLog[i].ok

\* C13: send_email_with_attachments never raises: whichever of building the
\* message, reading an attachment, connecting, STARTTLS, login or sending
\* fails, it returns False; it returns True only when sendmail has completed
\* and nothing failed.
C13_SendNeverRaises ==
    /\ excSite # "mail"
    /\ mailResult \in {"none", "True", "False"}
    /\ pc = "m_ret" => mailResult \in {"True", "False"}
    /\ pc = "m_ret" /\ MailFailed => mailResult = "False"
    /\ mailResult = "True" => "sendmail" \in MailDone /\ ~MailFailed

\* the connection refused (an OSError, not an SMTPException): False is returned
C13_Witness ==
    /\ pc = "m_ret"
    /\ mailResult = "False"
    /\ mailLog # <<>>
    /\ mailLog[Len(mailLog)] = [op |-> "connect", ok |-> FALSE]


\* s.split(sep) for a one-character separator
RECURSIVE StrSplit(_, _)
StrSplit(s, sep) ==
    IF \E i \in 1..Len(s) : s[i] = sep
    THEN LET i == CHOOSE i \in 1..Len(s) : s[i] = sep /\ \A j \in 1..(i - 1) : s[j] # sep
         IN <<SubSeq(s, 1, i - 1)>> \o StrSplit(SubSeq(s, i + 1, Len(s)), sep)
    ELSE <<s>>

StartsWith(s, prefix) == Len(s) >= Len(prefix) /\ SubSeq(s, 1, Len(prefix)) = prefix

Indices(q) == [i \in 1..Len(q) |-> i]

\* the keys resolved for the candidates of list number i, in the order resolved
ResolvedKeys(i) ==
    LET hits == SelectSeq(outcomes, LAMBDA o : o.kind = "resolved" /\ o.list = i)
    IN [k \in 1..Len(hits) |-> hits[k].key]

\* the lists for which a key was resolved, in the order processed
ListsResolved == SelectSeq(Indices(NYT_LIST_NAMES), LAMBDA i : ResolvedKeys(i) # <<>>)

\* the groups a reader finds in the found report: the name line and the keys of
\* each 'CatKeys: ' line
ReadGroups(report) ==
    LET prefix == <<"C", "a", "t", "K", "e", "y", "s", ":", " ">>
        at == SelectSeq(Indices(report), LAMBDA i : StartsWith(report[i], prefix))
    IN [k \in 1..Len(at) |->
           [name |-> report[at[k] - 1],
            keys |-> StrSplit(SubSeq(report[at[k]], Len(prefix) + 1, Len(report[at[k]])),
                              ",")]]

\* C14 (as claimed): the found report has one group for each list that had a key
\* resolved, in the order the lists were processed, and the comma-joined keys of
\* the group are the keys resolved for the list's candidates, in the order
\* resolved, duplicates kept.
C14_ResolvedOrdering ==
    foundReport # None =>
        ReadGroups(foundReport) =
            [k \in 1..Len(ListsResolved) |->
                [name |-> StrTitle(StrReplace(NYT_LIST_NAMES[ListsResolved[k]], "-", " "))
                             \o <<":">>,
                 keys |-> ResolvedKeys(ListsResolved[k])]]


\* C15 (as claimed): the found report is one line for each list of the resolved
\* mapping, '<Title Case List Name>: <comma-separated keys>'; for the list
\* hardcover-fiction with the one key 482910 it holds the line
\* 'Hardcover Fiction: 482910'.
C15_ResolvedLineFormat ==
    foundReport # None =>
        /\ foundReport =
              [k \in 1..Len(all_found) |->
                  StrTitle(StrReplace(all_found[k][1], "-", " ")) \o <<":", " ">>
                     \o StrJoin(<<",">>, all_found[k][2])]
        /\ all_found = << <<HardcoverFiction, <<Key1>>>> >> =>
              \E i \in 1..Len(foundReport) :
                 foundReport[i] =
                    <<"H", "a", "r", "d", "c", "o", "v", "e", "r", " ", "F", "i", "c", "t", "i",
                      "o", "n", ":", " ", "4", "8", "2", "9", "1", "0">>


\* a csv reader on one line: the fields between the commas that stand outside
\* quotes, the enclosing quotes taken off, a doubled quote read as one
RECURSIVE ReadCsv(_, _, _, _)
ReadCsv(s, quoted, cur, out) ==
    IF s = <<>> THEN Append(out, cur)
    ELSE LET c == Head(s)
             r == Tail(s)
         IN IF quoted
            THEN IF c # "\"" THEN ReadCsv(r, TRUE, Append(cur, c), out)
                 ELSE IF r # <<>> /\ Head(r) = "\""
                      THEN ReadCsv(Tail(r), TRUE, Append(cur, "\""), out)
                      ELSE ReadCsv(r, FALSE, cur, out)
            ELSE IF c = "," THEN ReadCsv(r, FALSE, <<>>, Append(out, cur))
                 ELSE IF c = "\"" THEN ReadCsv(r, TRUE, cur, out)
                 ELSE ReadCsv(r, FALSE, Append(cur, c), out)

\* the candidates that ended unresolved, in the order the loop took them
UnresolvedLog == SelectSeq(outcomes, LAMBDA o : o.kind = "unresolved")

\* C16: the not-found report is the header and then one row for each unresolved
\* candidate, in the order the candidates were taken across the lists; a reader
\* gets from each row the list name and the identifier, title and author that
\* fetch_nyt_list returned for the candidate; a candidate whose search ended by
\* a timeout is recorded as unresolved.
C16_UnresolvedArtifact ==
    /\ notFoundReport # None =>
          /\ Len(notFoundReport) = 1 + Len(UnresolvedLog)
          /\ notFoundReport[1] =
                <<"l", "i", "s", "t", ",", "i", "s", "b", "n", ",", "t", "i", "t", "l", "e", ",",
                  "a", "u", "t", "h", "o", "r">>
          /\ \A k \in 1..Len(UnresolvedLog) :
                ReadCsv(notFoundReport[k + 1], FALSE, <<>>, <<>>) =
                   << NYT_LIST_NAMES[UnresolvedLog[k].list], UnresolvedLog[k].book.isbn13,
                      UnresolvedLog[k].book.title, UnresolvedLog[k].book.author >>
    /\ pc = "next_book" /\ bookIdx >= 1 /\ reason = "timeout" =>
          /\ outcomes # <<>>
          /\ outcomes[Len(outcomes)] =
                [kind |-> "unresolved", list |-> listIdx, book |-> books[bookIdx]]

\* two candidates unresolved, the last by a timeout, the second with a comma in
\* its title and quotes in its author; the report is written
C16_Witness ==
    /\ pc = "email"
    /\ reason = "timeout"
    /\ notFoundReport # None
    /\ Len(notFoundReport) = 3
    /\ UnresolvedLog[2].book.title = <<"T", ",", " ", "2">>


\* the digits of a string, in order
DigitsOf(str) == SelectSeq(str, LAMBDA c : c \in Digits)

\* the 13-digit identifiers the strings among the given JSON values yield
Isbn13sIn(values) ==
    {DigitsOf(j.v) : j \in {x \in values : x.t = "str" /\ Len(DigitsOf(x.v)) = 13}}

\* the isbn13 values of the secondary field of an item
Secondary(b) == {b.isbns[i] : i \in 1..Len(b.isbns)}

\* candidate c was made from item b
MadeFrom(c, b) ==
    /\ c.title = b.title
    /\ c.author = b.author
    /\ c.isbn13 \in Isbn13sIn({b.primary_isbn13} \cup Secondary(b))

\* C17: every candidate fetch_nyt_list returns has an identifier of exactly 13
\* characters, all digits, which is an identifier field of its item with the
\* non-digits taken out; the candidates are made from items of the response in
\* the order of the response, one for an item at most, and from no item that
\* has no such identifier.
C17_CandidatesHaveIsbn13 ==
    pc = "fetched" /\ respBody # NoBody =>
        /\ \A k \in 1..Len(books) :
              /\ Len(books[k].isbn13) = 13
              /\ \A i \in 1..13 : books[k].isbn13[i] \in Digits
        /\ \E f \in [1..Len(books) -> 1..Len(respBody.books)] :
              /\ \A k \in 1..Len(books) : MadeFrom(books[k], respBody.books[f[k]])
              /\ \A k \in 1..(Len(books) - 1) : f[k] < f[k + 1]

\* a response of two items: the first has a hyphenated identifier and is kept
\* with its 13 digits, the second has 5 digits only in the field used and is
\* discarded
C17_Witness ==
    /\ pc = "fetched"
    /\ Len(respBody.books) = 2
    /\ respBody.books[1].primary_isbn13 = JStr(IsbnAHyphen)
    /\ respBody.books[2].primary_isbn13 = JStr(IsbnShort)
    /\ Len(books) = 1
    /\ books[1].isbn13 = IsbnA

\* C18 (as claimed): an item whose primary field does not yield a 13-digit
\* identifier while its secondary field holds one is kept, with the identifier
\* of the secondary field.
C18_IdentifierFallback ==
    pc = "fetched" /\ respBody # NoBody =>
        \A i \in 1..Len(respBody.books) :
           LET b == respBody.books[i]
           IN Isbn13sIn({b.primary_isbn13}) = {} /\ Isbn13sIn(Secondary(b)) # {} =>
                 \E k \in 1..Len(books) :
                    /\ books[k].title = b.title
                    /\ books[k].author = b.author
                    /\ books[k].isbn13 \in Isbn13sIn(Secondary(b))


\* the keys of the resolved mapping and of the list under way
StoredKeys ==
    {perlist_found[i] : i \in 1..Len(perlist_found)}
    \cup UNION {{all_found[g][2][i] : i \in 1..Len(all_found[g][2])} : g \in 1..Len(all_found)}

\* C19: in every reachable state, a key that search_library_catalog returns and
\* every key stored in perlist_found or in the resolved mapping is a non-empty
\* string of digits only.
C19_KeyGrammar ==
    /\ pc = "r_ret" /\ ReturnValue(catkey) # None =>
          /\ Len(ReturnValue(catkey)) >= 1
          /\ \A i \in 1..Len(ReturnValue(catkey)) : ReturnValue(catkey)[i] \in Digits
    /\ \A key \in StoredKeys :
          /\ key # None
          /\ Len(key) >= 1
          /\ \A i \in 1..Len(key) : key[i] \in Digits

\* the key 482910 was read from the location '.../SD_ILS:482910/one' and the key
\* 15 from a link; both are in the resolved mapping
C19_Witness ==
    /\ pc = "report"
    /\ all_found # <<>>
    /\ all_found[1][2] = <<Key1, Key2>>

\* some required variable is unset or empty
ConfigInvalid == \E v \in DOMAIN environ : environ[v] \in {"unset", "empty"}

\* C20: when a required variable is missing or empty the process ends with a
\* non-zero status at validation: no WebDriver is launched, no list fetched, no
\* report written and no mail sent.
C20_ConfigFailureIsPreflight ==
    ConfigInvalid =>
        /\ pc \in {"validate", "done"}
        /\ pc = "done" => exitStatus = "config"
        /\ sessionsCreated = 0 /\ browser = "none" /\ driver = None
        /\ listIdx = 0 /\ attempt = 0 /\ fetchedTotal = 0 /\ outcomes = <<>>
        /\ attachments = {} /\ foundReport = None /\ notFoundReport = None
        /\ emailCalls = 0

\* SENDER_PASSWORD is set to the empty string, the process has exited with status 1
C20_Witness ==
    /\ pc = "done"
    /\ exitStatus = "config"
    /\ environ["SENDER_PASSWORD"] = "empty"
    /\ \A v \in DOMAIN environ : v # "SENDER_PASSWORD" => environ[v] = "set"


\* the reports whose write failed, and those whose write completed
WriteFailed == {writeLog[i].file : i \in {j \in 1..Len(writeLog) : ~writeLog[j].ok}}
WriteCompleted == {writeLog[i].file : i \in {j \in 1..Len(writeLog) : writeLog[j].ok}}

\* C21: a failure while writing a report does not leave generate_reports as an
\* exception; the report is then not among the attachments, and the other
\* report is still written and attached; a report is among the attachments only
\* when its write completed, and it is then the whole report.
C21_WriteFailureRecovered ==
    /\ excSite # "write"
    /\ attachments = WriteCompleted
    /\ WriteFailed \cap attachments = {}
    /\ pc \in {"email", "finally", "done"} /\ excSite = "none" /\ configOk =>
          /\ all_found # <<>> => "found" \in WriteFailed \cup WriteCompleted
          /\ not_found_rows # <<>> => "notfound" \in WriteFailed \cup WriteCompleted
    /\ "found" \in attachments => foundReport = FoundReport(all_found)
    /\ "notfound" \in attachments => notFoundReport = NotFoundReport(not_found_rows)

\* the write of the found report failed, the not-found report is attached
C21_Witness ==
    /\ pc = "email"
    /\ writeLog = <<[file |-> "found", ok |-> FALSE], [file |-> "notfound", ok |-> TRUE]>>
    /\ attachments = {"notfound"}
    /\ exc = "none"


\* C22: when fetch_nyt_list returns the empty sequence, main makes no call of
\* search_library_catalog for that list, leaves the resolved mapping and the
\* unresolved rows as they are, and goes on with the list after it when there is one.
C22_SkipListOnEmptyFetch ==
    [][/\ pc = "fetched" /\ books = <<>> =>
            /\ pc' = "next_list"
            /\ UNCHANGED <<all_found, not_found_rows, outcomes, usedSessions,
                           perlist_found, total_processed, total_found, listIdx>>
       /\ pc = "next_list" /\ listIdx < Len(NYT_LIST_NAMES) =>
            /\ pc' = "fetch"
            /\ listIdx' = listIdx + 1
            /\ UNCHANGED <<all_found, not_found_rows, outcomes, usedSessions>>]_vars

\* the first list was skipped on an empty fetch and the first candidate of the
\* second list is being resolved
C22_Witness ==
    /\ pc = "r_get_isbn"
    /\ listIdx = 2
    /\ bookIdx = 1
    /\ outcomes = <<>>
    /\ usedSessions = <<driver>>


\* C23: every call of search_library_catalog that has returned and been
\* recorded, with a key or without, was followed by the 0.5 s sleep, so while a
\* call is in progress every earlier call has been followed by its sleep.
C23_PacingBetweenResolutions ==
    LET calls == Len(usedSessions)
        completed == IF pc \in ResolvePcs \cup {"r_ret"} THEN calls - 1 ELSE calls
    IN sleeps = PACING_MS * completed

\* a second call is in progress after a first one that returned no key
C23_Witness ==
    /\ pc \in ResolvePcs
    /\ Len(usedSessions) = 2
    /\ Len(outcomes) = 1
    /\ outcomes[1].kind = "unresolved"
    /\ sleeps = PACING_MS


\* the extraction step the call made last, when it has made one
LastExtract ==
    IF steps # <<>> /\ steps[Len(steps)][1] \in {"url", "links"}
    THEN steps[Len(steps)][2] ELSE "no"

\* C28: when the ISBN query yields a key, from the location or from a link,
\* search_library_catalog issues no title query and returns that key; it
\* issues at most two driver.get calls per identifier, the ISBN query first and
\* at most one title query after it, and the title query only when the ISBN
\* query yielded no key.
C28_ShortCircuit ==
    /\ navs \in {<<>>, <<"isbn">>, <<"isbn", "title">>}
    /\ LastExtract = "isbn" /\ Truthy(catkey) =>
          /\ pc = "r_ret"
          /\ navs = <<"isbn">>
          /\ ReturnValue(catkey) = catkey
          /\ IsKey(catkey)
    /\ pc = "r_get_title" => ~Truthy(catkey) /\ navs = <<"isbn">>
    /\ pc \in {"r_wait_title", "r_url_title", "r_links_title"} => navs = <<"isbn", "title">>
    /\ pc \in {"r_wait_isbn", "r_url_isbn", "r_links_isbn"} => navs = <<"isbn">>
    /\ pc = "r_get_isbn" => navs = <<>>

\* the ISBN query found the key in a link and the call is returning it
C28_Witness ==
    /\ pc = "r_ret"
    /\ steps = <<<<"get", "isbn">>, <<"wait", "isbn">>, <<"url", "isbn">>, <<"links", "isbn">>>>
    /\ navs = <<"isbn">>
    /\ catkey = Key2


\* the anchors of the page, in document order, whose href contains a key
KeyedAnchors ==
    {i \in 1..Len(anchors) :
        anchors[i] # None /\ Truthy(_extract_catkey_from_url(anchors[i]))}

\* C29: within one mode, a key in the current location is the key returned, and
\* the links are then not read; otherwise the key returned is that of the first
\* link in document order whose href contains a key, whatever links follow it.
C29_ExtractionPriority ==
    pc = "r_ret" /\ Truthy(catkey) =>
        LET inLocation == _extract_catkey_from_url(location)
            last == steps[Len(steps)]
        IN /\ steps # <<>>
           /\ IF Truthy(inLocation)
              THEN /\ catkey = inLocation
                   /\ last[1] = "url"
              ELSE /\ last[1] = "links"
                   /\ KeyedAnchors # {}
                   /\ LET first == CHOOSE i \in KeyedAnchors : \A j \in KeyedAnchors : i <= j
                      IN catkey = _extract_catkey_from_url(anchors[first])

\* the key of the third link is returned although the fourth link holds another
C29_Witness ==
    /\ pc = "r_ret"
    /\ anchors = <<HrefPlain, HrefNoDigits, HrefKey2, HrefKey1>>
    /\ catkey = Key2
    /\ steps[Len(steps)][1] = "links"

\* the key of the location is returned although a link holds another
C29_WitnessLocation ==
    /\ pc = "r_ret"
    /\ anchors = <<HrefKey2>>
    /\ catkey = Key1
    /\ steps[Len(steps)][1] = "url"


\* C30: when every attempt of fetch_nyt_list has failed, it has issued exactly
\* MAX_RETRIES requests and slept exactly MAX_RETRIES - 1 times, for 1, 2, 4, ...
\* seconds (2^a after failed attempt a, counted from 0), with no sleep after the
\* last failed attempt; with MAX_RETRIES = 0 it issues no request and returns
\* the empty list.
C30_BackoffSchedule ==
    /\ pc = "fetched" /\ respBody = NoBody =>
          /\ attempt = MAX_RETRIES
          /\ Len(waits) = IF MAX_RETRIES = 0 THEN 0 ELSE MAX_RETRIES - 1
          /\ books = <<>>
    /\ \A i \in 1..Len(waits) : waits[i] = 2 ^ (i - 1)
    /\ pc = "fetch" => Len(waits) = IF attempt < MAX_RETRIES THEN attempt ELSE Len(waits)
    /\ MAX_RETRIES = 0 => attempt = 0 /\ waits = <<>> /\ respBody = NoBody /\ exc = "none"

\* three failed attempts, a sleep of 1 s and a sleep of 2 s between them
C30_Witness ==
    /\ pc = "fetched"
    /\ respBody = NoBody
    /\ MAX_RETRIES = 3
    /\ attempt = 3
    /\ waits = <<1, 2>>

\* MAX_RETRIES = 0: the empty list without a request
C30_WitnessZero ==
    /\ pc = "fetched"
    /\ MAX_RETRIES = 0
    /\ attempt = 0
    /\ books = <<>>


\* the reason a call that returns None is given: that of the except clause
\* that logged, and no-pattern-match when no clause did
Attributed(r) ==
    CASE r = "timeout" -> "timeout"
      [] r \in {"webdriver", "unexpected"} -> "session-error"
      [] r = "none" -> "no-pattern-match"
      [] OTHER -> "unattributed"

\* the step of the call that raised: the one after the steps that completed
FailingStep == <<"get", "wait", "url", "links">>[(Len(steps) % 4) + 1]

C25_WitnessTimeout ==
    /\ pc = "r_ret"
    /\ Len(steps) = 5
    /\ reason = "timeout"

\* the links of the ISBN-mode page could not be read
C25_WitnessSessionError ==
    /\ pc = "r_ret"
    /\ Len(steps) = 3
    /\ reason = "webdriver"


\* where main is once the loop over the lists is over
PostLoopPcs == {"report", "email", "finally", "done"}

\* C27: once the loop over the lists is over, generate_reports,
\* generate_email_summary and send_email_with_attachments leave the resolved
\* mapping and the unresolved rows as the loop left them, and main never
\* returns to the loop to record another result.
C27_AccumulatorReadOnlyAfterLoop ==
    [][(pc \in PostLoopPcs) =>
          (/\ UNCHANGED <<all_found, not_found_rows, perlist_found, outcomes,
                          total_found, total_processed>>
           /\ pc' \in PostLoopPcs)]_vars

\* both reports written from a mapping of two lists and one unresolved row,
\* and the mail step over
C27_Witness ==
    /\ pc = "finally"
    /\ attachments = {"found", "notfound"}
    /\ Len(all_found) = 2
    /\ Len(not_found_rows) = 1
    /\ emailCalls = 1


RECURSIVE SumOf(_, _)
SumOf(seq, field) ==
    IF seq = <<>> THEN 0 ELSE Head(seq)[field] + SumOf(Tail(seq), field)

\* the candidates for which search_library_catalog returned a key, and the others
NumResolved == Cardinality({i \in 1..Len(outcomes) : outcomes[i].kind = "resolved"})
NumUnresolved == Cardinality({i \in 1..Len(outcomes) : outcomes[i].kind = "unresolved"})

\* C26 (as claimed): whatever list names are configured, the summary's total
\* found is the number of candidates resolved to a key, its total not found is
\* the number of unresolved candidates, and the found and not-found counts of
\* the per-list breakdown add up to those totals.
C26_SummaryConsistency ==
    summary # <<>> =>
        /\ summary[1].total_found = NumResolved
        /\ summary[1].total_not = NumUnresolved
        /\ SumOf(summary[1].breakdown, "found") = summary[1].total_found
        /\ SumOf(summary[1].breakdown, "not_found") = summary[1].total_not

\* the same holds of every run whose configured list names are distinct
C26_ConsistentWhenNamesDistinct ==
    (\A i, j \in 1..Len(NYT_LIST_NAMES) : NYT_LIST_NAMES[i] = NYT_LIST_NAMES[j] => i = j) =>
        C26_SummaryConsistency


\* is p a prefix of q
IsPrefix(p, q) == Len(p) <= Len(q) /\ SubSeq(q, 1, Len(p)) = p

\* C24: two calls of search_library_catalog for the same identifier, on
\* sessions of their own, against a catalog that answers each request the same
\* way both times, issue the same requests and return the same outcome,
\* whatever page each session was on when its call started.
C24_ResolveDeterministic ==
    firstCall # <<>> =>
        /\ IsPrefix(navs, firstCall[1].navs)
        /\ IsPrefix(steps, firstCall[1].steps)
        /\ pc = "r_ret" =>
              /\ ReturnValue(catkey) = firstCall[1].ret
              /\ navs = firstCall[1].navs
              /\ steps = firstCall[1].steps
              /\ reason = firstCall[1].reason

\* both calls fell back to the title query and returned the key of its page
C24_Witness ==
    /\ firstCall # <<>>
    /\ pc = "r_ret"
    /\ driver = <<"session", 2>>
    /\ navs = <<"isbn", "title">>
    /\ firstCall[1].navs = <<"isbn", "title">>
    /\ IsKey(ReturnValue(catkey))
    /\ firstCall[1].ret = ReturnValue(catkey)


\* the failures of the request itself: no response in time, no connection, an
\* error status
RequestLevel == {"Timeout", "ConnectionError", "HTTPError"}

\* C35: a timeout, a connection error and an HTTP error status, 4xx or 5xx,
\* are handled alike by fetch_nyt_list: each uses up one attempt and is followed
\* by the backoff of that attempt and by the next attempt, and none of them ends
\* the loop before the attempts are used up.
C35_RequestFailuresAlike ==
    [][(pc = "fetch" /\ failed' # failed /\ failed'.cls \in RequestLevel) =>
          (/\ pc' = "fetch"
           /\ exc' = "none"
           /\ attempt' = attempt + 1
           /\ waits' = IF attempt < MAX_RETRIES - 1
                       THEN Append(waits, 2 ^ attempt)
                       ELSE waits
           /\ books' = books)]_vars

\* a 404 after a timeout: two attempts used, two backoffs, the third attempt next
C35_Witness ==
    /\ pc = "fetch"
    /\ MAX_RETRIES = 3
    /\ attempt = 2
    /\ waits = <<1, 2>>
    /\ failed = [cls |-> "HTTPError", status |-> 404, at |-> 1]


\* the names of the lists for which a key was resolved
NamesResolved ==
    {NYT_LIST_NAMES[outcomes[i].list] :
        i \in {j \in 1..Len(outcomes) : outcomes[j].kind = "resolved"}}

\* the names that head a group of the found report
GroupNames(report) == {ReadGroups(report)[k].name : k \in 1..Len(ReadGroups(report))}

\* C36: when no write fails, generate_reports produces the found report if and
\* only if a key was resolved in the run, and the not-found report if and only
\* if a candidate was left unresolved; the found report has a group for a list
\* name only if a key was resolved for it, and no group without keys.
C36_ArtifactPresence ==
    pc = "email" /\ WriteFailed = {} =>
        /\ "found" \in attachments <=> NumResolved > 0
        /\ foundReport # None <=> NumResolved > 0
        /\ "notfound" \in attachments <=> NumUnresolved > 0
        /\ notFoundReport # None <=> NumUnresolved > 0
        /\ foundReport # None =>
              /\ \A i \in 1..Len(NYT_LIST_NAMES) :
                    (DisplayName(NYT_LIST_NAMES[i]) \o <<":">>) \in GroupNames(foundReport)
                       <=> NYT_LIST_NAMES[i] \in NamesResolved
              /\ \A k \in 1..Len(ReadGroups(foundReport)) :
                    ReadGroups(foundReport)[k].keys # << <<>> >>

\* two lists: no key for the candidates of the first, a key in the second; both
\* reports are produced and the found report has the group of the second only
C36_Witness ==
    /\ pc = "email"
    /\ WriteFailed = {}
    /\ attachments = {"found", "notfound"}
    /\ Len(NYT_LIST_NAMES) = 2
    /\ NYT_LIST_NAMES[1] # NYT_LIST_NAMES[2]
    /\ NamesResolved = {NYT_LIST_NAMES[2]}
    /\ Len(ReadGroups(foundReport)) = 1
    /\ \E i \in 1..Len(outcomes) : outcomes[i].kind = "unresolved" /\ outcomes[i].list = 1


\* C34: a run acquires at most one session, and exactly one before any call of
\* search_library_catalog; every call is made on that session, after
\* create_webdriver returned it and before driver.quit(); once driver.quit()
\* has been called no call is in progress and none follows.
C34_SessionLivenessOrdering ==
    /\ sessionsCreated <= 1
    /\ quitCalls <= 1
    /\ \A i \in 1..Len(usedSessions) : usedSessions[i] = <<"session", 1>>
    /\ usedSessions # <<>> => sessionsCreated = 1 /\ driver = <<"session", 1>>
    /\ pc \in ResolvePcs \cup {"r_ret"} =>
          /\ usedSessions # <<>>
          /\ browser = "running"
          /\ quitCalls = 0
    /\ quitCalls = 1 => pc = "done" /\ navs = <<>>

\* the session was used for three calls and then quit
C34_Witness ==
    /\ pc = "done"
    /\ sessionsCreated = 1
    /\ quitCalls = 1
    /\ browser = "quit"
    /\ Len(usedSessions) = 3


\* the wait steps a call has completed
WaitsDone == Len(SelectSeq(steps, LAMBDA st : st[1] = "wait"))

C32_VariantsExtractAlike ==
    pc = "extracted_all" => resLegacy = res /\ resGenerator = res

\* the generator script's pattern does extract what the canonical one does,
\* and the legacy pattern does whenever it matches at the leftmost
\* 'SD_ILS:<digit>'
C32_WhereTheVariantsAgree ==
    pc = "extracted_all" =>
        /\ resGenerator = res
        /\ (\A i \in 1..Len(url) :
               MatchAt(url, i) /\ (\A j \in 1..(i - 1) : ~MatchAt(url, j))
                  => LegacyMatchAt(url, i))
              => resLegacy = res


\* C33: in each of the two other copies of the program, once the browser
\* session has been created, driver.quit() has been called by the time main is
\* left, whatever was raised on the way.
C33_VariantsReleaseSession ==
    pc = "done" /\ sessionsCreated = 1 => quitCalls = 1

\* the legacy copy alone does release its session on every path
C33_LegacyReleasesSession ==
    pc = "done" /\ sessionsCreated = 1 /\ url # <<>> => quitCalls = 1


\* what one query of a call comes to, from the catalog's answer to it alone:
\* the key returned, the except clause that logged, and whether nothing was
\* found so that the next query is due
QueryOutcome(answer) ==
    LET faulted == [ret |-> None,
                    reason |-> ClauseName(FirstClause(ResolveClauses, answer.fault[2], 1)),
                    more |-> FALSE]
        k1 == _extract_catkey_from_url(answer.page.url)
        k2 == FirstLinkKey(SelectLinks(answer.page.links), k1)
    IN IF answer.fault[1] \in {"get", "wait"} THEN faulted
       ELSE IF ~UrlReady(answer.page.url)
            THEN [ret |-> None, reason |-> "timeout", more |-> FALSE]
       ELSE IF answer.fault[1] = "url" THEN faulted
       ELSE IF Truthy(k1) THEN [ret |-> k1, reason |-> "none", more |-> FALSE]
       ELSE IF answer.fault[1] = "links" THEN faulted
       ELSE IF Truthy(k2) THEN [ret |-> k2, reason |-> "none", more |-> FALSE]
       ELSE [ret |-> None, reason |-> "none", more |-> TRUE]

\* what a call comes to, from the catalog's answers to its requests alone
CatalogOutcome(cat) ==
    LET a == QueryOutcome(cat["isbn"])
        b == QueryOutcome(cat["title"])
    IN IF a.more
       THEN [ret |-> b.ret, reason |-> b.reason, navs |-> <<"isbn", "title">>]
       ELSE [ret |-> a.ret, reason |-> a.reason, navs |-> <<"isbn">>]

\* C37: a call of search_library_catalog on a session that an earlier call has
\* used issues the requests, returns the key and logs the reason that the
\* catalog's answers to its own requests determine, whatever location and
\* links the earlier call left in the session and however that call ended.
C37_HistoryIndependent ==
    firstCall # <<>> =>
        /\ IsPrefix(navs, CatalogOutcome(catalog).navs)
        /\ pc = "r_ret" =>
              /\ ReturnValue(catkey) = CatalogOutcome(catalog).ret
              /\ reason = CatalogOutcome(catalog).reason
              /\ navs = CatalogOutcome(catalog).navs

\* the earlier call ended in a timeout and left the session on the page of a
\* record; the call after it went through both queries and found nothing
C37_Witness ==
    /\ firstCall # <<>>
    /\ firstCall[1].reason = "timeout"
    /\ firstCall[1].left = UrlDetailKey
    /\ pc = "r_ret"
    /\ navs = <<"isbn", "title">>
    /\ ReturnValue(catkey) = None
    /\ reason = "none"

\* the session is still on the page of the earlier record when the call,
\* whose own request failed, returns None
C37_WitnessStalePage ==
    /\ firstCall # <<>>
    /\ IsKey(firstCall[1].ret)
    /\ pc = "r_ret"
    /\ navs = <<"isbn">>
    /\ location = UrlDetailKey
    /\ ReturnValue(catkey) = None
    /\ reason = "webdriver"

=============================================================================
